---------------------------- MODULE Spec2Model ----------------------------
(***************************************************************************)
(* Voice agent: the conversation engine (LLMAgent.chat), the turn pipeline  *)
(* (CallOrchestrator) and the media-stream connection loop with its         *)
(* utterance segmenter (websocket_media_stream).                            *)
(***************************************************************************)
EXTENDS Integers, Sequences, FiniteSets, TLC

(***************************************************************************)
(* Bounds of the model                                                      *)
(***************************************************************************)
\* longest input history handed to a first chat call
MaxHist == 42
\* chat calls chained on one history in SpecChat
MaxChain == 2
\* non-empty frames the transport sends between two resets of the segmenter
MaxBuf == 33
\* pipeline runs per connection
MaxTurns == 2
\* frames above the speech threshold per connection
MaxSpeech == 2
\* the frames above silence of an utterance are among its first MaxLead
MaxLead == 4
\* transport messages in flight
MaxInbox == 1
\* events out of the ordinary per connection
MaxOdd == 1
\* non-empty frames the transport sends while suppression lasts
MaxSkip == 1

\* busy periods on the calendar of the day looked at
MaxBusy == 2

\* the lengths of the stored history a recorded pipeline run starts from
TurnHists == {1, 3, 39, 41, 42}

\* the frame sizes of the streams considered, in bytes
FrameLens == {100}

(***************************************************************************)
(* Program constants                                                        *)
(***************************************************************************)
MAX_HISTORY == 40
KEEP_FIRST == 4
KEEP_LAST == 36
max_tool_rounds == 5


(***************************************************************************)
(* Messages                                                                 *)
(***************************************************************************)
\* a text: k names its origin, n numbers it
Text(k, n) == [k |-> k, n |-> n]

EmptyText == Text("", 0)

\* Python's None where a text is expected
None == Text("None", 0)

\* a message dict; tool_calls and tool_call_id are absent (<<>>, "") on
\* plain user/assistant/system messages
Msg(role, content) ==
    [role |-> role, content |-> content, tool_calls |-> <<>>, tool_call_id |-> ""]

SystemMessage == Msg("system", Text("prompt", 0))

\* choice.message.model_dump() of a response that requests tool calls
AssistantToolMsg(tcs) ==
    [role |-> "assistant", content |-> None, tool_calls |-> tcs, tool_call_id |-> ""]

ToolResultMsg(tc, result) ==
    [role |-> "tool", content |-> result, tool_calls |-> <<>>, tool_call_id |-> tc.id]

FALLBACK_PHRASE == Text("sorry-trouble-repeat", 0)
STALL_PHRASE == Text("apologize-delay", 0)

(***************************************************************************)
(* Sequence helpers                                                         *)
(***************************************************************************)
\* s[:n]
Prefix(s, n) == SubSeq(s, 1, IF n < Len(s) THEN n ELSE Len(s))

\* s[-n:]
Suffix(s, n) == SubSeq(s, IF Len(s) > n THEN Len(s) - n + 1 ELSE 1, Len(s))

\* the i-th entry of the histories the model starts from: the greeting
\* (assistant) first, then user and assistant alternating
HistEntry(i) == Msg(IF i % 2 = 1 THEN "assistant" ELSE "user", Text("h", i))

History(n) == [i \in 1..n |-> HistEntry(i)]

(***************************************************************************)
(* The reasoning backend and the tools                                      *)
(***************************************************************************)
\* a tool call of a response: its correlation id, the function name and the
\* arguments string ("full": a JSON object with every argument, "empty": the
\* JSON object {}, "garbage": no JSON at all)
ToolCall(id, name, arguments) == [id |-> id, name |-> name, arguments |-> arguments]

\* the tool rounds a response may request: its tool_calls list and, per
\* call, what the collaborator behind the tool does ("ok" or "exc")
ToolBatches ==
    { [tool_calls |-> <<ToolCall("tc1", "search_knowledge_base", "full")>>,
       outcomes |-> <<"ok">>],
      [tool_calls |-> <<ToolCall("tc1", "search_knowledge_base", "full"),
                        ToolCall("tc2", "lookup_appointment", "empty")>>,
       outcomes |-> <<"exc", "ok">>],
      [tool_calls |-> <<ToolCall("tc1", "check_availability", "garbage"),
                        ToolCall("tc2", "no_such_tool", "full")>>,
       outcomes |-> <<"ok", "ok">>] }

ToolNames ==
    { "check_availability", "book_appointment", "reschedule_appointment",
      "cancel_appointment", "lookup_appointment", "search_knowledge_base" }

\* the tools whose branch subscripts the argument mapping (arguments["date"],
\* ...); lookup_appointment reads its arguments with .get only
SubscriptsArguments == ToolNames \ {"lookup_appointment"}

\* one client.chat.completions.create call: it raises, returns text (content
\* may be None), or returns tool calls
Responses ==
    { [kind |-> "raise", content |-> None, tool_calls |-> <<>>, outcomes |-> <<>>] }
    \cup { [kind |-> "text", content |-> c, tool_calls |-> <<>>, outcomes |-> <<>>] :
             c \in {Text("final", 0), None} }
    \cup { [kind |-> "tools", content |-> None, tool_calls |-> b.tool_calls,
            outcomes |-> b.outcomes] : b \in ToolBatches }

\* fn_args: json.loads of the arguments string, {} when it is not JSON
ParseArgs(arguments) == IF arguments = "garbage" THEN "empty" ELSE arguments

\* the try block of _execute_tool: the branch of the tool subscripts the
\* arguments (KeyError when one is missing), then calls the collaborator,
\* which may raise; an unknown name gets an error payload
ExecuteToolBody(name, fn_args, outcome) ==
    IF name \in ToolNames
      THEN IF name \in SubscriptsArguments /\ fn_args = "empty"
             THEN [tool |-> name, status |-> "raised"]
           ELSE IF outcome = "exc"
             THEN [tool |-> name, status |-> "raised"]
           ELSE [tool |-> name, status |-> "ok"]
      ELSE [tool |-> name, status |-> "error"]

\* the exception of a tool leaves _execute_tool
ExecuteToolUnguarded(name, fn_args, outcome) == ExecuteToolBody(name, fn_args, outcome)

\* LLMAgent._execute_tool: the result string; except Exception turns what
\* the try block raises into an error payload
ExecuteTool(name, fn_args, outcome) ==
    LET result == ExecuteToolBody(name, fn_args, outcome)
    IN IF result.status = "raised" THEN [tool |-> name, status |-> "error"] ELSE result

(***************************************************************************)
(* LLMAgent.chat                                                            *)
(***************************************************************************)
\* the list objects chat works with: the caller's list, the list the trim
\* builds, the copy the final answer is appended to
ListObjs == {"caller", "trimmed", "updated"}

\* the trim keeps the most recent entries only
TrimKeepsRecent(h) == IF Len(h) > MAX_HISTORY THEN Suffix(h, MAX_HISTORY) ELSE h

\* the trim keeps one recent entry too few
TrimDropsOne(h) ==
    IF Len(h) > MAX_HISTORY THEN Prefix(h, KEEP_FIRST) \o Suffix(h, KEEP_LAST - 1) ELSE h

\* the history is never trimmed
NoTrim(h) == h

\* history trimming
Trim(h) ==
    IF Len(h) > MAX_HISTORY THEN Prefix(h, KEEP_FIRST) \o Suffix(h, KEEP_LAST) ELSE h

\* the object the name conversation_history is bound to after the trim
TrimTarget(h) == IF Len(h) > MAX_HISTORY THEN "trimmed" ELSE "caller"

\* updated_history = conversation_history: no copy is made
CopyTargetAlias(ref) == ref

\* conversation_history.copy(): the object updated_history is bound to
CopyTarget(ref) == "updated"

ChatIdle ==
    [pc |-> "idle", heap |-> [o \in ListObjs |-> <<>>], conversation_history |-> "caller",
     user_message |-> EmptyText, messages |-> <<>>, tools_called |-> <<>>,
     round_num |-> 0, backend_calls |-> 0, dispatches |-> 0, failed |-> 0,
     last |-> "none", text |-> EmptyText, history |-> "caller", input |-> <<>>]

\* chat up to the round loop.  backend_calls and dispatches count the
\* backend invocations and the _execute_tool calls of this chat call, failed
\* the dispatches that met a failing case, last is the kind of the latest
\* backend response, input the value of the caller's list at the call
ChatBegin(hist, msg) ==
    LET ref == TrimTarget(hist)
        hp  == [o \in ListObjs |->
                  IF o = "caller" THEN hist
                  ELSE IF o = "trimmed" /\ ref = "trimmed" THEN Trim(hist)
                  ELSE <<>>]
    IN [pc |-> "loop", heap |-> hp, conversation_history |-> ref,
        user_message |-> msg,
        messages |-> <<SystemMessage>> \o hp[ref] \o <<Msg("user", msg)>>,
        tools_called |-> <<>>, round_num |-> 0, backend_calls |-> 0, dispatches |-> 0,
        failed |-> 0, last |-> "none", text |-> EmptyText, history |-> ref,
        input |-> hist]

\* a dispatch that cannot succeed: the name is not in the catalog, a
\* required argument is missing (also after unparsable arguments), or the
\* collaborator raises
FailingCase(tc, outcome) ==
    \/ tc.name \notin ToolNames
    \/ tc.arguments \in {"empty", "garbage"} /\ tc.name # "lookup_appointment"
    \/ outcome = "exc"

\* the number of elements of a sequence of booleans that are true
RECURSIVE CountTrue(_)
CountTrue(bs) ==
    IF bs = <<>> THEN 0 ELSE (IF Head(bs) THEN 1 ELSE 0) + CountTrue(Tail(bs))

\* the tool results are appended in reverse order
ToolRecordsReversed(resp) ==
    <<AssistantToolMsg(resp.tool_calls)>>
      \o [i \in 1..Len(resp.tool_calls) |->
            LET j == Len(resp.tool_calls) + 1 - i
            IN ToolResultMsg(resp.tool_calls[j],
                             ExecuteTool(resp.tool_calls[j].name,
                                         ParseArgs(resp.tool_calls[j].arguments),
                                         resp.outcomes[j]))]

\* the records one tool round appends to messages
ToolRecords(resp) ==
    <<AssistantToolMsg(resp.tool_calls)>>
      \o [i \in 1..Len(resp.tool_calls) |->
            ToolResultMsg(resp.tool_calls[i],
                          ExecuteTool(resp.tool_calls[i].name,
                                      ParseArgs(resp.tool_calls[i].arguments),
                                      resp.outcomes[i]))]

\* the loop does not count tool rounds
NextRoundStuck(r) == r

\* round_num of the next iteration after a tool round
NextRound(r) == r + 1

\* the failed turn's user entry is kept in the returned history
ChatBackendErrorKeepsUser(c) ==
    [c EXCEPT !.pc = "returned", !.backend_calls = @ + 1, !.last = "raise",
              !.text = FALLBACK_PHRASE,
              !.heap = [@ EXCEPT !["updated"] =
                          c.heap[c.conversation_history] \o <<Msg("user", c.user_message)>>],
              !.history = "updated"]

\* the backend invocation raised: return the fallback phrase
ChatBackendError(c) ==
    [c EXCEPT !.pc = "returned", !.backend_calls = @ + 1, !.last = "raise",
              !.text = FALLBACK_PHRASE, !.history = c.conversation_history]

\* a name is recorded once per round, however many calls the round has
NamesOncePerRound(tcs) == <<tcs[1].name>>

\* the names tools_called gets in a tool round
NamesCalled(tcs) == [i \in 1..Len(tcs) |-> tcs[i].name]

\* the response carries tool calls: record them, dispatch each, loop again
ChatToolRound(c, resp) ==
    [c EXCEPT !.backend_calls = @ + 1, !.last = "tools",
              !.messages = @ \o ToolRecords(resp),
              !.tools_called = @ \o NamesCalled(resp.tool_calls),
              !.dispatches = @ + Len(resp.tool_calls),
              !.failed = @ + CountTrue([i \in 1..Len(resp.tool_calls) |->
                                          FailingCase(resp.tool_calls[i], resp.outcomes[i])]),
              !.round_num = NextRound(@)]

\* the response is plain text: the final answer
ChatFinalAnswer(c, resp) ==
    LET agent_response == IF resp.content = None THEN EmptyText ELSE resp.content
        upd == CopyTarget(c.conversation_history)
    IN [c EXCEPT !.pc = "returned", !.backend_calls = @ + 1, !.last = "text",
                 !.text = agent_response,
                 !.heap = [@ EXCEPT ![upd] =
                             c.heap[c.conversation_history]
                               \o <<Msg("user", c.user_message),
                                    Msg("assistant", agent_response)>>],
                 !.history = upd]

\* one iteration of the round loop, the backend answering resp
ChatRound(c, resp) ==
    IF resp.kind = "raise" THEN ChatBackendError(c)
    ELSE IF resp.kind = "tools" THEN ChatToolRound(c, resp)
    ELSE ChatFinalAnswer(c, resp)

\* the exhausted attempt's message list (less the system message) is returned
ChatExhaustedLeak(c) ==
    [c EXCEPT !.pc = "returned", !.text = STALL_PHRASE,
              !.heap = [@ EXCEPT !["updated"] = Tail(c.messages)],
              !.history = "updated"]

\* the return after the loop ran out of rounds
ChatExhausted(c) ==
    [c EXCEPT !.pc = "returned", !.text = STALL_PHRASE,
              !.history = c.conversation_history]

\* only the entries of the turn are returned
ReturnedTurnOnly(c) == Suffix(c.heap[c.history], 2)

\* the history a finished chat returns
Returned(c) == c.heap[c.history]


(***************************************************************************)
(* CallOrchestrator                                                         *)
(***************************************************************************)
CallSids == {"CA1"}

\* call_sid = None: no start event was handled yet
NoCall == "None"

\* start_data.get("streamSid") of a start event without one
NoSid == "None"

StreamSids == {"MZ1"}

\* a slot of _active_sessions for which no session was created.  A slot
\* shows the session object last stored under its key: present tells whether
\* the store still holds it, the other fields are the object's
NoSession == [present |-> FALSE, history |-> <<>>, is_active |-> FALSE]

GREETING == Text("welcome", 0)
STT_FALLBACK == Text("sorry-didnt-catch", 0)
LLM_FALLBACK == Text("apologize-brief-issue", 0)

\* what a call of the synthesis backend does: audio, no audio bytes, or it raises
TtsOutcomes == {"ok", "empty", "raise"}

\* what a call of the transcription backend does: a transcript (possibly
\* empty or blank), or it raises
SttOutcomes == {"text", "empty", "blank", "raise"}

\* the base64 string text_to_speech_base64 returns ("" for no bytes)
Base64Audio(tts) == IF tts = "ok" THEN "audio" ELSE ""

\* the backend behaviours a turn of a call is run against: the i-th backend
\* invocation gets the i-th response, the last one repeating
BackendScripts ==
    LET raise == [kind |-> "raise", content |-> None, tool_calls |-> <<>>, outcomes |-> <<>>]
        text  == [kind |-> "text", content |-> Text("final", 0), tool_calls |-> <<>>,
                  outcomes |-> <<>>]
        none  == [kind |-> "text", content |-> None, tool_calls |-> <<>>, outcomes |-> <<>>]
        tools == [kind |-> "tools", content |-> None,
                  tool_calls |-> <<ToolCall("tc1", "search_knowledge_base", "full")>>,
                  outcomes |-> <<"ok">>]
    IN { <<text>>, <<none>>, <<raise>>, <<tools, text>>, <<tools>> }

\* what the conversation engine does in a turn: chat raises before its first
\* backend invocation (the client cannot be built), or it runs against a script
LlmOutcomes == {<<>>} \cup BackendScripts

\* chat from the round loop to its return, against a script
RECURSIVE ChatLoop(_, _)
ChatLoop(c, script) ==
    IF c.pc # "loop" THEN c
    ELSE IF c.round_num >= max_tool_rounds THEN ChatExhausted(c)
    ELSE ChatLoop(ChatRound(c, script[IF c.backend_calls < Len(script)
                                        THEN c.backend_calls + 1 ELSE Len(script)]),
                  script)

\* llm_agent.chat(conversation_history, user_message)
Chat(hist, msg, script) == ChatLoop(ChatBegin(hist, msg), script)

\* start_call begins a store of its own, holding the new session only
StartCallOnlySession(sessions, sid) ==
    [c \in DOMAIN sessions |->
        IF c = sid
          THEN [present |-> TRUE, history |-> <<Msg("assistant", GREETING)>>,
                is_active |-> TRUE]
          ELSE NoSession]

\* CallOrchestrator.start_call: the store afterwards
StartCallSessions(sessions, sid) ==
    [sessions EXCEPT ![sid] =
        [present |-> TRUE, history |-> <<Msg("assistant", GREETING)>>, is_active |-> TRUE]]

\* CallOrchestrator.end_call: the log_call_end calls it makes
EndCallLogs(sessions, sid) ==
    IF sid \in DOMAIN sessions /\ sessions[sid].present THEN 1 ELSE 0

\* the session is removed from the store with its flag still set
EndCallLeavesActive(sessions, sid) ==
    IF sid \in DOMAIN sessions THEN [sessions EXCEPT ![sid].present = FALSE] ELSE sessions

\* CallOrchestrator.end_call: the store afterwards, and the session popped
\* from it
EndCall(sessions, sid) ==
    IF sid \in DOMAIN sessions /\ sessions[sid].present
      THEN [sessions EXCEPT ![sid].present = FALSE, ![sid].is_active = FALSE]
      ELSE sessions

\* only the empty transcript ends the turn
IsEmptyOnly(stt) == stt = "empty"

\* not customer_text or customer_text.strip() == ""
IsBlank(stt) == stt \in {"empty", "blank"}

\* the synthesis of a fallback phrase is guarded like that of the reply
FallbackTtsGuarded(tts) == FALSE

\* does an exception of the synthesis of a fallback phrase leave
\* process_customer_audio: the except handlers call it unguarded
FallbackTtsRaises(tts) == tts = "raise"

\* the synthesis of the reply is not guarded
ReplyTtsUnguarded(tts) == tts = "raise"

\* does an exception of the synthesis of the agent's reply leave
\* process_customer_audio: it is caught and the audio is ""
ReplyTtsRaises(tts) == FALSE

\* only a key the store never held has no session
MissingOnlyIfUnknown(sessions, sid) == sid \notin DOMAIN sessions

\* self._active_sessions.get(call_sid) is None
SessionMissing(sessions, sid) == sid \notin DOMAIN sessions \/ ~sessions[sid].present

\* the history is stored once the reply was synthesized
StoredIfSpoken(c, tts, old) == IF tts = "ok" THEN Returned(c) ELSE old

\* session.conversation_history = updated_history, right after chat returns
\* and before the reply is synthesized
StoredAfterChat(c, tts, old) == Returned(c)

\* CallOrchestrator.process_customer_audio: raised tells whether an exception
\* leaves it, text and audio are the pair it returns, sessions is the store
\* afterwards, calls the backends it invoked, in order
ProcessCustomerAudio(sessions, sid, msg, stt, llm, tts) ==
    IF SessionMissing(sessions, sid)
      THEN [raised |-> FALSE, text |-> EmptyText, audio |-> "", sessions |-> sessions,
            calls |-> <<>>]
    ELSE IF stt = "raise"
      THEN [raised |-> FallbackTtsRaises(tts), text |-> STT_FALLBACK, audio |-> Base64Audio(tts),
            sessions |-> sessions, calls |-> <<"stt", "tts">>]
    ELSE IF IsBlank(stt)
      THEN [raised |-> FALSE, text |-> EmptyText, audio |-> "", sessions |-> sessions,
            calls |-> <<"stt">>]
    ELSE IF llm = <<>>
      THEN [raised |-> FallbackTtsRaises(tts), text |-> LLM_FALLBACK, audio |-> Base64Audio(tts),
            sessions |-> sessions, calls |-> <<"stt", "llm", "tts">>]
    ELSE LET c == Chat(sessions[sid].history, msg, llm)
         IN [raised |-> ReplyTtsRaises(tts), text |-> c.text, audio |-> Base64Audio(tts),
             sessions |-> [sessions EXCEPT ![sid].history = StoredAfterChat(c, tts, @)],
             calls |-> <<"stt", "llm", "tts">>]

\* no pipeline run recorded
NoTurn ==
    [pc |-> "none", stt |-> "", llm |-> <<>>, tts |-> "", send |-> "",
     before |-> <<>>, text |-> EmptyText, audio |-> "", raised |-> FALSE, calls |-> <<>>]

(***************************************************************************)
(* The utterance segmenter of websocket_media_stream                        *)
(***************************************************************************)
CHUNK_THRESHOLD == 3200
SILENCE_THRESHOLD == 30
SPEECH_RMS_THRESHOLD == 200

\* a decoded media payload: n bytes whose RMS energy is rms
Frame(rms, n) == [rms |-> rms, n |-> n]

\* len(audio_buffer)
RECURSIVE Bytes(_)
Bytes(buf) == IF buf = <<>> THEN 0 ELSE Head(buf).n + Bytes(Tail(buf))

\* rms_energy > SPEECH_RMS_THRESHOLD
IsSpeech(rms) == rms > SPEECH_RMS_THRESHOLD

\* every media event is accounted for, suppressed or not
NeverSuppressed(flag) == FALSE

\* if is_processing: continue
Suppressed(flag) == flag

\* the bytes of a frame are kept once the caller speaks
AccountWhileSpeaking(buf, speaking, silence, frame) ==
    [buffer |-> IF IsSpeech(frame.rms) \/ speaking THEN Append(buf, frame) ELSE buf,
     is_speaking |-> IsSpeech(frame.rms) \/ speaking,
     silence_count |-> IF IsSpeech(frame.rms) THEN 0
                       ELSE IF speaking THEN silence + 1 ELSE silence]

\* the frame is classified and its bytes are dropped
AccountFlagsOnly(buf, speaking, silence, frame) ==
    [buffer |-> buf,
     is_speaking |-> IsSpeech(frame.rms) \/ speaking,
     silence_count |-> IF IsSpeech(frame.rms) THEN 0
                       ELSE IF speaking THEN silence + 1 ELSE silence]

\* a media frame is accounted for: the buffer, the speaking flag and the
\* silence counter afterwards
Account(buf, speaking, silence, frame) ==
    [buffer |-> Append(buf, frame),
     is_speaking |-> IsSpeech(frame.rms) \/ speaking,
     silence_count |-> IF IsSpeech(frame.rms) THEN 0
                       ELSE IF speaking THEN silence + 1 ELSE silence]

\* a pause after speech: the utterance is complete
ShouldEmit(seg) ==
    /\ seg.is_speaking
    /\ seg.silence_count >= SILENCE_THRESHOLD
    /\ Bytes(seg.buffer) > CHUNK_THRESHOLD

\* no playback acknowledgment ends the playback
NoMark(name) == FALSE

\* any playback acknowledgment ends the playback
AnyMark(name) == TRUE

\* mark_name == "response_end"
IsResponseEnd(name) == name = "response_end"

\* the flag is left set when a turn produced no audio
StaySuppressed(flag) == flag

\* is_processing after a turn that produced no audio, or raised: listening
\* resumes
AfterNoAudio(flag) == FALSE

\* listening resumes as soon as the response audio is sent
ResumeAfterSend(flag) == FALSE

\* is_processing after the response audio and its marker are sent: kept
\* until the mark event
AfterSend(flag) == flag

(***************************************************************************)
(* _send_audio                                                              *)
(***************************************************************************)
CHUNK_SIZE == 8000

\* the byte counts of the synthesized audio a call of _send_audio is run on;
\* 0 stands for the empty string text_to_speech_base64 gives for no bytes
AudioLens == {0, 1, 7999, 8000, 8001, 15999, 16000, 16001, 24000, 24001, 32000, 40000}

\* bytes lo+1 .. hi of the audio
Slice(lo, hi) == [lo |-> lo, hi |-> hi]

\* base64.b64encode: 4 characters for every 3 bytes or part of 3 bytes
B64Encode(bytes) ==
    [of |-> bytes, chars |-> 4 * ((bytes.hi - bytes.lo + 2) \div 3)]

\* base64.b64decode
B64Decode(b64) == b64.of

\* the whole of the rest goes out as one chunk
ChunkEndRest(i, n) == n

\* the end of audio_bytes[i : i + CHUNK_SIZE] in a string of n bytes
ChunkEnd(i, n) == IF i + CHUNK_SIZE < n THEN i + CHUNK_SIZE ELSE n

\* the messages _send_audio sends
MediaMessage(sid, payload) ==
    [event |-> "media", streamSid |-> sid, payload |-> payload, name |-> ""]

MarkMessage(sid) ==
    [event |-> "mark", streamSid |-> sid, payload |-> B64Encode(Slice(0, 0)),
     name |-> "response_end"]

(***************************************************************************)
(* CalendarService.get_available_slots and the check_availability tool      *)
(***************************************************************************)
\* times are minutes of the day looked at, in the salon's timezone
DayStart == 9 * 60
DayEnd == 19 * 60
\* after a slot the candidate moves on by the length of the business day
DayStride == DayEnd - DayStart
STRIDE == 30

\* the instants the busy periods considered begin and end at: before, in and
\* after the business hours, on and off the half hours
BusyTimes == {8 * 60, 9 * 60 + 30, 10 * 60, 10 * 60 + 45, 11 * 60, 18 * 60 + 30, 20 * 60}

\* a busy period (bs, be)
Busy(bs, be) == [bs |-> bs, be |-> be]

BusyPeriods == {Busy(p[1], p[2]) : p \in {q \in BusyTimes \X BusyTimes : q[1] < q[2]}}

\* the lists of busy periods of a day, in any order
BusyLists == UNION {[1..n -> BusyPeriods] : n \in 0..MaxBusy}

\* the durations asked for, in minutes
Durations == {30, 45, 60, 600, 615}

\* strftime("%H:%M")
HHMM(t) == [hh |-> (t \div 60) % 24, mm |-> t % 60]

\* the instant of the day a "%H:%M" string names
Minutes(hhmm) == hhmm.hh * 60 + hhmm.mm

\* a candidate conflicts only when it starts inside the busy period
ConflictStartInside(current, slot_end, b) == b.bs <= current /\ current < b.be

\* current < busy_end and slot_end > busy_start
Conflict(current, slot_end, b) == current < b.be /\ slot_end > b.bs

\* the last slot has to end before the day does
FitsStrictly(current, duration) == current + duration < DayEnd

\* while current + duration <= day_end
Fits(current, duration) == current + duration <= DayEnd

\* the first busy period of the list is taken for a conflict
FirstListed(busy, current, slot_end) == IF busy = <<>> THEN 0 ELSE 1

\* the index of the first busy period the candidate conflicts with, 0 if none
FirstConflict(busy, current, slot_end) ==
    LET hits == {k \in DOMAIN busy : Conflict(current, slot_end, busy[k])}
    IN IF hits = {} THEN 0 ELSE CHOOSE k \in hits : \A j \in hits : k <= j

\* the dict appended for a free candidate
Slot(current, slot_end) ==
    [start_time |-> HHMM(current), end_time |-> HHMM(slot_end), date |-> "D"]

\* the exception of the events query leaves get_available_slots
FetchErrorRaises == [raised |-> TRUE, slots |-> <<>>]

\* except Exception around the events query: return []
FetchError == [raised |-> FALSE, slots |-> <<>>]

\* the check_availability branch of _execute_tool, given what
\* get_available_slots did
CheckAvailability(raised, result) ==
    IF raised THEN [status |-> "error", slots |-> <<>>, total_available |-> 0]
    ELSE IF result = <<>> THEN [status |-> "no_slots", slots |-> <<>>, total_available |-> 0]
    ELSE [status |-> "available", slots |-> Prefix(result, 5),
          total_available |-> Len(result)]

\* no tool result yet
NoPayload == [status |-> "none", slots |-> <<>>, total_available |-> 0]

(***************************************************************************)
(* State                                                                    *)
(***************************************************************************)
VARIABLES
    chat,             \* the running or finished call of LLMAgent.chat
    chain,            \* chat calls made so far on the chained history
    active_sessions,  \* CallOrchestrator._active_sessions
    inbox,            \* transport messages sent and not yet received by the loop
    pc,               \* where the connection's coroutine is
    call_sid,
    stream_sid,
    audio_buffer,
    silence_count,
    is_speaking,
    is_processing,
    greeting_sent,
    audio_data,       \* the utterance handed to the pipeline
    unacked,          \* markers sent whose echo was not handled yet
    to_echo,          \* markers the transport has still to echo
    acked,            \* response markers whose echo was handled
    tx,               \* the transport: is it open, what has it sent
    fed,              \* non-empty frames accounted for since the segmenter was
                      \* last reset with suppression clear
    skipped,          \* non-empty frames discarded since suppression was set
    emitted,          \* utterances emitted since then
    runs,             \* pipeline runs started on this connection
    frame_len,        \* bytes per media frame of this stream
    ended,            \* log_call_end calls made for this connection
    turn,             \* the pipeline run that returned last, in SpecTurn
    playback,         \* a call of _send_audio: where it is, what it has sent
    sweep,            \* a call of the check_availability tool: the calendar's
                      \* busy periods, the duration, the sweep's candidate and
                      \* the slots found
    peer              \* the other connection served by the process, if any:
                      \* which one it is and the local variables of its
                      \* coroutine

chatVars == <<chat, chain>>

segVars == <<audio_buffer, silence_count, is_speaking>>

connVars ==
    <<active_sessions, inbox, pc, call_sid, stream_sid, audio_buffer, silence_count,
      is_speaking, is_processing, greeting_sent, audio_data, unacked, to_echo, acked,
      tx, fed, skipped, emitted, runs, frame_len, ended>>

\* the state of the operations that are specified on their own
auxVars == <<playback, sweep, peer>>

vars == <<chatVars, connVars, turn, auxVars>>

\* no call of _send_audio under way
NoPlayback ==
    [pc |-> "none", audio_len |-> 0, stream_sid |-> NoSid, i |-> 0, sent |-> <<>>]

\* no call of check_availability under way
NoSweep ==
    [pc |-> "none", busy |-> <<>>, duration |-> 0, fetch |-> "none", current |-> 0,
     slots |-> <<>>, raised |-> FALSE, payload |-> NoPayload, candidates |-> <<>>]

\* the local variables of the coroutine of the connection in focus
Locals ==
    [inbox |-> inbox, pc |-> pc, call_sid |-> call_sid, stream_sid |-> stream_sid,
     audio_buffer |-> audio_buffer, silence_count |-> silence_count,
     is_speaking |-> is_speaking, is_processing |-> is_processing,
     greeting_sent |-> greeting_sent, audio_data |-> audio_data, unacked |-> unacked,
     to_echo |-> to_echo, acked |-> acked, tx |-> tx, fed |-> fed, skipped |-> skipped,
     emitted |-> emitted, runs |-> runs, frame_len |-> frame_len, ended |-> ended]

\* the local variables of a connection right after websocket.accept()
FreshLocals ==
    [inbox |-> <<>>, pc |-> "recv", call_sid |-> NoCall, stream_sid |-> NoSid,
     audio_buffer |-> <<>>, silence_count |-> 0, is_speaking |-> FALSE,
     is_processing |-> FALSE, greeting_sent |-> FALSE, audio_data |-> <<>>,
     unacked |-> <<>>, to_echo |-> 0, acked |-> 0,
     tx |-> [open |-> TRUE, starts |-> 0, spurious |-> 0, odd |-> 0, speech |-> 0],
     fed |-> <<>>, skipped |-> <<>>, emitted |-> 0, runs |-> 0, frame_len |-> 100,
     ended |-> 0]

\* no other connection
NoPeer == [conn |-> 0, local |-> FreshLocals]

InitAux == playback = NoPlayback /\ sweep = NoSweep /\ peer = NoPeer

\* the state of a connection right after websocket.accept()
InitConn ==
    /\ active_sessions = [c \in CallSids |-> NoSession]
    /\ inbox = <<>>
    /\ pc = "recv"
    /\ call_sid = NoCall
    /\ stream_sid = NoSid
    /\ audio_buffer = <<>>
    /\ silence_count = 0
    /\ is_speaking = FALSE
    /\ is_processing = FALSE
    /\ greeting_sent = FALSE
    /\ audio_data = <<>>
    /\ unacked = <<>>
    /\ to_echo = 0
    /\ acked = 0
    /\ tx = [open |-> TRUE, starts |-> 0, spurious |-> 0, odd |-> 0, speech |-> 0]
    /\ fed = <<>>
    /\ skipped = <<>>
    /\ emitted = 0
    /\ runs = 0
    /\ frame_len \in FrameLens
    /\ ended = 0

(***************************************************************************)
(* SpecChat: calls of LLMAgent.chat, each on the history the previous one   *)
(* returned                                                                 *)
(***************************************************************************)
InitChat ==
    /\ chat = ChatIdle
    /\ chain = 0
    /\ InitConn
    /\ turn = NoTurn
    /\ InitAux

\* a caller calls chat(conversation_history, user_message)
ChatCall ==
    /\ chat.pc \in {"idle", "returned"}
    /\ chain < MaxChain
    /\ chain' = chain + 1
    /\ \E hist \in (IF chat.pc = "idle" THEN {History(n) : n \in 0..MaxHist}
                                        ELSE {Returned(chat)}) :
          chat' = ChatBegin(hist, Text("u", chain + 1))
    /\ UNCHANGED <<connVars, turn, auxVars>>

\* for round_num in range(max_tool_rounds): one backend invocation
ChatRoundStep ==
    /\ chat.pc = "loop"
    /\ chat.round_num < max_tool_rounds
    /\ \E resp \in Responses : chat' = ChatRound(chat, resp)
    /\ UNCHANGED <<chain, connVars, turn, auxVars>>

\* the loop ran out of rounds
ChatExhaustedStep ==
    /\ chat.pc = "loop"
    /\ chat.round_num >= max_tool_rounds
    /\ chat' = ChatExhausted(chat)
    /\ UNCHANGED <<chain, connVars, turn, auxVars>>

NextChat == ChatCall \/ ChatRoundStep \/ ChatExhaustedStep

SpecChat == InitChat /\ [][NextChat]_vars

(***************************************************************************)
(* The transport                                                            *)
(***************************************************************************)
\* during_turn tells an event delivered while a pipeline run of the
\* connection was in flight from the others
Event(event, sid, call, frame, name, echo) ==
    [event |-> event, sid |-> sid, call |-> call, frame |-> frame, name |-> name,
     echo |-> echo, during_turn |-> FALSE]

NoFrame == Frame(0, 0)

StartEv(sid, call) == Event("start", sid, call, NoFrame, "", FALSE)
MediaEv(frame) == Event("media", NoSid, NoCall, frame, "", FALSE)
\* echo tells a mark the transport sends for a marker it was sent from one
\* it sends unasked
MarkEv(name, echo) == Event("mark", NoSid, NoCall, NoFrame, name, echo)
StopEv == Event("stop", NoSid, NoCall, NoFrame, "", FALSE)
ConnectedEv == Event("connected", NoSid, NoCall, NoFrame, "", FALSE)
\* the peer closes the connection: receive_text raises WebSocketDisconnect
\* inside iter_text
DisconnectEv == Event("disconnect", NoSid, NoCall, NoFrame, "", FALSE)

\* media events with a payload in a sequence of events
RECURSIVE MediaIn(_)
MediaIn(q) ==
    IF q = <<>> THEN 0
    ELSE (IF Head(q).event = "media" /\ Head(q).frame.n > 0 THEN 1 ELSE 0) + MediaIn(Tail(q))

\* events out of the ordinary the transport has sent: start events after the
\* first, response_end marks that echo no marker, and events and frames the
\* loop ignores or takes for silence
Odd == (IF tx.starts > 1 THEN tx.starts - 1 ELSE 0) + tx.spurious + tx.odd

\* frames sent since the segmenter was last reset, or since suppression was set
Position == (IF is_processing THEN Len(skipped) ELSE Len(fed)) + MediaIn(inbox)

\* the frames the transport may send next: silent ones, and, among the first
\* frames of an utterance and while the budgets last, frames above the speech
\* threshold, frames at the threshold and empty payloads
MediaFrames ==
    IF \/ runs >= MaxTurns
       \/ ~is_processing /\ Len(fed) + MediaIn(inbox) >= MaxBuf
       \/ is_processing /\ Position >= MaxSkip
      THEN {}
    ELSE {Frame(0, frame_len)}
         \cup (IF tx.speech < MaxSpeech /\ Position < MaxLead
                 THEN {Frame(SPEECH_RMS_THRESHOLD + 1, frame_len)} ELSE {})
         \cup (IF Odd < MaxOdd /\ Position < MaxLead
                 THEN {Frame(SPEECH_RMS_THRESHOLD, frame_len), Frame(0, 0)} ELSE {})

\* the events the transport may send next.  A stream begins with its start
\* event, possibly after a connected event.  While the budget lasts the
\* transport also sends a further start event, a response_end mark that
\* echoes no marker, or a mark of another name
Sendable ==
    IF tx.starts = 0
      THEN {StartEv(sid, c) : sid \in StreamSids, c \in CallSids}
           \cup (IF Odd < MaxOdd THEN {ConnectedEv} ELSE {})
    ELSE {MediaEv(f) : f \in MediaFrames}
         \cup {StopEv, DisconnectEv}
         \cup (IF Odd < MaxOdd
                 THEN {StartEv(sid, c) : sid \in StreamSids, c \in CallSids}
                      \cup {MarkEv("response_end", FALSE), MarkEv("other", FALSE)}
                 ELSE {})

\* the transport's counters after it sent ev
Sent(ev) ==
    [open     |-> ev.event \notin {"stop", "disconnect"},
     starts   |-> tx.starts + (IF ev.event = "start" THEN 1 ELSE 0),
     spurious |-> tx.spurious
                  + (IF ev.event = "mark" /\ ev.name = "response_end" THEN 1 ELSE 0),
     odd      |-> tx.odd
                  + (IF \/ ev.event = "connected"
                        \/ ev.event = "mark" /\ ev.name # "response_end"
                        \/ ev.event = "media" /\ ~IsSpeech(ev.frame.rms)
                                              /\ ev.frame # Frame(0, frame_len)
                       THEN 1 ELSE 0),
     speech   |-> tx.speech
                  + (IF ev.event = "media" /\ IsSpeech(ev.frame.rms) THEN 1 ELSE 0)]

\* the event as it waits to be received, delivered at position at of the
\* connection's coroutine
Delivered(ev, at) == [ev EXCEPT !.during_turn = (at = "pipeline")]

\* the transport sends an event
TransportSend ==
    /\ tx.open
    /\ Len(inbox) < MaxInbox
    /\ \E ev \in Sendable :
          /\ inbox' = Append(inbox, Delivered(ev, pc))
          /\ tx' = Sent(ev)
    /\ UNCHANGED <<chatVars, auxVars, turn, ended, active_sessions, pc, call_sid, stream_sid,
                   segVars, is_processing, greeting_sent, audio_data, unacked, to_echo,
                   acked, fed, skipped, emitted, runs, frame_len>>

\* the transport has played the audio up to a marker and echoes the marker
TransportEcho ==
    /\ tx.open
    /\ to_echo > 0
    /\ inbox' = Append(inbox, MarkEv("response_end", TRUE))
    /\ to_echo' = to_echo - 1
    /\ UNCHANGED <<chatVars, auxVars, turn, ended, active_sessions, pc, call_sid, stream_sid,
                   segVars, is_processing, greeting_sent, audio_data, unacked, acked,
                   tx, fed, skipped, emitted, runs, frame_len>>

(***************************************************************************)
(* websocket_media_stream: the event loop                                   *)
(***************************************************************************)
\* the loop is at `async for message in websocket.iter_text()` and the next
\* message is an event of this type
Received(event) ==
    /\ pc = "recv"
    /\ inbox # <<>>
    /\ Head(inbox).event = event
    /\ inbox' = Tail(inbox)

\* what websocket.send_text does: once the peer is gone it may raise
SendOutcomes == IF tx.open THEN {"ok"} ELSE {"ok", "raise"}

\* the ghost record of the frames fed is restarted whenever the segmenter is
\* reset with suppression clear
FedReset == fed' = <<>> /\ emitted' = 0 /\ skipped' = <<>>

\* event_type == "start", up to the await of start_call
HandleStart ==
    /\ Received("start")
    /\ stream_sid' = Head(inbox).sid
    /\ call_sid' = Head(inbox).call
    /\ pc' = "start_call"
    /\ UNCHANGED <<chatVars, auxVars, turn, ended, active_sessions, segVars, is_processing,
                   greeting_sent, audio_data, unacked, to_echo, acked, tx, fed, skipped,
                   emitted, runs, frame_len>>

\* start_call returns in its thread; the greeting is sent
StartCallReturn ==
    /\ pc = "start_call"
    /\ \E tts \in TtsOutcomes, send \in SendOutcomes :
          LET greeting_audio_b64 == Base64Audio(tts)
              sessions == StartCallSessions(active_sessions, call_sid)
          IN IF greeting_audio_b64 # "" /\ stream_sid # NoSid
               THEN /\ is_processing' = TRUE
                    /\ skipped' = IF is_processing THEN skipped ELSE <<>>
                    /\ IF send = "ok"
                         THEN /\ greeting_sent' = TRUE
                              /\ unacked' = Append(unacked, "greeting")
                              /\ to_echo' = to_echo + 1
                              /\ active_sessions' = sessions
                              /\ pc' = "recv"
                              /\ UNCHANGED ended
                         ELSE \* except WebSocketDisconnect / Exception
                              /\ active_sessions' = EndCall(sessions, call_sid)
                              /\ ended' = ended + EndCallLogs(sessions, call_sid)
                              /\ pc' = "closed"
                              /\ UNCHANGED <<greeting_sent, unacked, to_echo>>
               ELSE /\ active_sessions' = sessions
                    /\ pc' = "recv"
                    /\ UNCHANGED <<is_processing, greeting_sent, unacked, to_echo, skipped,
                                   ended>>
    /\ UNCHANGED <<chatVars, auxVars, turn, inbox, call_sid, stream_sid, segVars, audio_data, acked,
                   tx, fed, emitted, runs, frame_len>>

\* event_type == "media"
HandleMedia ==
    /\ Received("media")
    /\ LET frame == Head(inbox).frame
           seg == Account(audio_buffer, is_speaking, silence_count, frame)
       IN IF Suppressed(is_processing)
            THEN /\ skipped' = IF frame.n > 0 THEN Append(skipped, frame) ELSE skipped
                 /\ UNCHANGED <<segVars, is_processing, audio_data, pc, fed, emitted, runs>>
          ELSE IF frame.n = 0
            THEN UNCHANGED <<segVars, is_processing, audio_data, pc, fed, skipped,
                             emitted, runs>>
          ELSE IF ShouldEmit(seg)
            THEN /\ audio_data' = seg.buffer
                 /\ audio_buffer' = <<>>
                 /\ is_speaking' = FALSE
                 /\ silence_count' = 0
                 /\ is_processing' = TRUE
                 /\ pc' = "pipeline"
                 /\ fed' = Append(fed, frame)
                 /\ emitted' = emitted + 1
                 /\ runs' = runs + 1
                 /\ skipped' = <<>>
          ELSE /\ audio_buffer' = seg.buffer
               /\ is_speaking' = seg.is_speaking
               /\ silence_count' = seg.silence_count
               /\ fed' = Append(fed, frame)
               /\ UNCHANGED <<is_processing, audio_data, pc, skipped, emitted, runs>>
    /\ UNCHANGED <<chatVars, auxVars, turn, ended, active_sessions, call_sid, stream_sid,
                   greeting_sent, unacked, to_echo, acked, tx, frame_len>>

\* the response audio and its marker go out: there is audio, a stream to
\* send it on, and the sends do not raise
Delivers(r, sid, send) == ~r.raised /\ r.audio # "" /\ sid # NoSid /\ send = "ok"

\* process_customer_audio returns (or raises) in its thread, the backends
\* behaving as stt, llm and tts tell; the response audio is sent, or
\* listening resumes
PipelineReturnWith(stt, llm, tts, send) ==
    /\ pc = "pipeline"
    /\ LET r == ProcessCustomerAudio(active_sessions, call_sid, Text("utterance", runs),
                                     stt, llm, tts)
       IN /\ active_sessions' = r.sessions
          /\ IF Delivers(r, stream_sid, send)
               THEN /\ is_processing' = AfterSend(is_processing)
                    /\ unacked' = Append(unacked, "response")
                    /\ to_echo' = to_echo + 1
                    /\ IF is_processing' THEN UNCHANGED <<fed, skipped, emitted>>
                                         ELSE FedReset
               ELSE /\ is_processing' = AfterNoAudio(is_processing)
                    /\ IF is_processing' THEN UNCHANGED <<fed, skipped, emitted>>
                                         ELSE FedReset
                    /\ UNCHANGED <<unacked, to_echo>>
    /\ pc' = "recv"
    /\ UNCHANGED <<chatVars, auxVars, ended, inbox, call_sid, stream_sid, segVars, greeting_sent,
                   audio_data, acked, tx, runs, frame_len>>

PipelineReturn ==
    /\ \E stt \in SttOutcomes, llm \in LlmOutcomes, tts \in TtsOutcomes,
          send \in SendOutcomes : PipelineReturnWith(stt, llm, tts, send)
    /\ UNCHANGED turn

\* event_type == "stop"
HandleStop ==
    /\ Received("stop")
    /\ active_sessions' = IF call_sid # NoCall THEN EndCall(active_sessions, call_sid)
                                               ELSE active_sessions
    /\ ended' = IF call_sid # NoCall THEN ended + EndCallLogs(active_sessions, call_sid)
                                     ELSE ended
    /\ pc' = "closed"
    /\ UNCHANGED <<chatVars, auxVars, turn, call_sid, stream_sid, segVars, is_processing,
                   greeting_sent, audio_data, unacked, to_echo, acked, tx, fed, skipped,
                   emitted, runs, frame_len>>

\* event_type == "mark"
HandleMark ==
    /\ Received("mark")
    /\ IF IsResponseEnd(Head(inbox).name)
         THEN /\ is_processing' = FALSE
              /\ audio_buffer' = <<>>
              /\ is_speaking' = FALSE
              /\ silence_count' = 0
              /\ FedReset
         ELSE UNCHANGED <<is_processing, segVars, fed, skipped, emitted>>
    /\ unacked' = IF Head(inbox).echo /\ unacked # <<>> THEN Tail(unacked) ELSE unacked
    /\ acked' = IF Head(inbox).echo /\ unacked # <<>> /\ Head(unacked) = "response"
                 THEN acked + 1 ELSE acked
    /\ UNCHANGED <<chatVars, auxVars, turn, ended, active_sessions, pc, call_sid, stream_sid,
                   greeting_sent, audio_data, to_echo, tx, runs, frame_len>>

\* an event type the loop has no branch for
HandleOther ==
    /\ Received("connected")
    /\ UNCHANGED <<chatVars, auxVars, turn, ended, active_sessions, pc, call_sid, stream_sid,
                   segVars, is_processing, greeting_sent, audio_data, unacked, to_echo,
                   acked, tx, fed, skipped, emitted, runs, frame_len>>

\* the peer has closed the connection: iter_text ends and with it the loop
HandleDisconnect ==
    /\ Received("disconnect")
    /\ pc' = "closed"
    /\ UNCHANGED <<chatVars, auxVars, turn, ended, active_sessions, call_sid, stream_sid,
                   segVars, is_processing, greeting_sent, audio_data, unacked, to_echo,
                   acked, tx, fed, skipped, emitted, runs, frame_len>>

\* a step of the connection's coroutine
Loop ==
    \/ HandleStart
    \/ StartCallReturn
    \/ HandleMedia
    \/ PipelineReturn
    \/ HandleStop
    \/ HandleMark
    \/ HandleOther
    \/ HandleDisconnect

Next == TransportSend \/ TransportEcho \/ Loop

Init ==
    /\ chat = ChatIdle
    /\ chain = 0
    /\ InitConn
    /\ turn = NoTurn
    /\ InitAux

Spec == Init /\ [][Next]_vars

\* the loop takes the events it was sent, start_call and the pipeline return
\* or raise, and the transport echoes the markers it was sent
FairSpec == Spec /\ WF_vars(Loop) /\ WF_vars(TransportEcho)

(***************************************************************************)
(* SpecTurn: one pipeline run of a call under way, with the behaviour of    *)
(* the backends on record                                                   *)
(***************************************************************************)
\* the shortest utterance the segmenter emits: a speech frame and 32 silent
\* frames
Utterance ==
    <<Frame(SPEECH_RMS_THRESHOLD + 1, frame_len)>>
      \o [i \in 1..(SILENCE_THRESHOLD + 2) |-> Frame(0, frame_len)]

\* a call some turns old whose segmenter has just emitted an utterance; the
\* peer is there, or has just closed the connection
InitTurn ==
    /\ chat = ChatIdle
    /\ chain = 0
    /\ \E n \in TurnHists :
          active_sessions = [c \in CallSids |->
                               [present |-> TRUE,
                                history |-> [History(n) EXCEPT ![1] = Msg("assistant", GREETING)],
                                is_active |-> TRUE]]
    /\ inbox \in {<<>>, <<DisconnectEv>>}
    /\ tx = [open |-> inbox = <<>>, starts |-> 1, spurious |-> 0, odd |-> 0, speech |-> 1]
    /\ pc = "pipeline"
    /\ call_sid \in CallSids
    /\ stream_sid \in StreamSids
    /\ audio_buffer = <<>>
    /\ silence_count = 0
    /\ is_speaking = FALSE
    /\ is_processing = TRUE
    /\ greeting_sent = TRUE
    /\ frame_len \in FrameLens
    /\ audio_data = Utterance
    /\ fed = Utterance
    /\ skipped = <<>>
    /\ emitted = 1
    /\ runs = 1
    /\ unacked = <<>>
    /\ to_echo = 0
    /\ acked = 0
    /\ ended = 0
    /\ turn = NoTurn
    /\ InitAux

\* the pipeline run returns; what the backends did and what
\* process_customer_audio returned is put on record
TurnReturn ==
    \E stt \in SttOutcomes, llm \in LlmOutcomes, tts \in TtsOutcomes, send \in SendOutcomes :
       /\ PipelineReturnWith(stt, llm, tts, send)
       /\ LET r == ProcessCustomerAudio(active_sessions, call_sid, Text("utterance", runs),
                                        stt, llm, tts)
          IN turn' = [pc |-> "returned", stt |-> stt, llm |-> llm, tts |-> tts,
                      send |-> send,
                      before |-> IF SessionMissing(active_sessions, call_sid) THEN <<>>
                                 ELSE active_sessions[call_sid].history,
                      text |-> r.text, audio |-> r.audio, raised |-> r.raised,
                      calls |-> r.calls]

NextTurn == TurnReturn

SpecTurn == InitTurn /\ [][NextTurn]_vars

(***************************************************************************)
(* SpecGone: a connection whose call has no session in the store, or is     *)
(* about to lose it                                                         *)
(***************************************************************************)
\* either an utterance was emitted for a call identifier without a session
\* (no start event was handled yet, or end_call has popped the session a
\* turn ago) and a frame is waiting; or the transport has sent a stop event
\* and, behind it, one more frame
\* a session end_call has popped after its first turn
GoneSession == [present |-> FALSE, history |-> History(3), is_active |-> FALSE]

InitGone ==
    /\ chat = ChatIdle
    /\ chain = 0
    /\ turn = NoTurn
    /\ InitAux
    /\ frame_len \in FrameLens
    /\ audio_buffer = <<>>
    /\ silence_count = 0
    /\ is_speaking = FALSE
    /\ skipped = <<>>
    /\ unacked = <<>>
    /\ to_echo = 0
    /\ ended = 0
    /\ \/ /\ pc = "pipeline"
          /\ \/ call_sid = NoCall /\ stream_sid = NoSid /\ greeting_sent = FALSE
                /\ active_sessions = [c \in CallSids |-> NoSession]
                /\ acked = 0
                /\ tx = [open |-> TRUE, starts |-> 0, spurious |-> 0, odd |-> 0,
                         speech |-> 1]
             \/ call_sid \in CallSids /\ stream_sid \in StreamSids /\ greeting_sent = TRUE
                /\ active_sessions = [c \in CallSids |-> GoneSession]
                /\ acked = 1
                /\ tx = [open |-> TRUE, starts |-> 1, spurious |-> 0, odd |-> 0,
                         speech |-> 1]
          /\ inbox = <<MediaEv(Frame(0, frame_len))>>
          /\ is_processing = TRUE
          /\ audio_data = Utterance
          /\ fed = Utterance
          /\ emitted = 1
          /\ runs = 1
       \/ /\ pc = "recv"
          /\ \E n \in {1, 3} :
                active_sessions = [c \in CallSids |->
                                     [present |-> TRUE, history |-> History(n),
                                      is_active |-> TRUE]]
          /\ call_sid \in CallSids /\ stream_sid \in StreamSids /\ greeting_sent = TRUE
          /\ acked = 1
          /\ tx = [open |-> FALSE, starts |-> 1, spurious |-> 0, odd |-> 0, speech |-> 0]
          /\ \E rms \in {0, SPEECH_RMS_THRESHOLD + 1} :
                inbox = <<StopEv, MediaEv(Frame(rms, frame_len))>>
          /\ is_processing = FALSE
          /\ audio_data = <<>>
          /\ fed = <<>>
          /\ emitted = 0
          /\ runs = 0

NextGone == TurnReturn \/ HandleMedia \/ HandleStop

SpecGone == InitGone /\ [][NextGone]_vars

(***************************************************************************)
(* SpecSend: the loop's decision to play a turn's audio, and _send_audio    *)
(* message by message                                                       *)
(***************************************************************************)
\* process_customer_audio has returned audio of some length, as base64, to a
\* loop that has a stream identifier or has none
InitSend ==
    /\ chat = ChatIdle
    /\ chain = 0
    /\ InitConn
    /\ turn = NoTurn
    /\ \E n \in AudioLens, sid \in StreamSids \cup {NoSid} :
          playback = [pc |-> "returned", audio_len |-> n, stream_sid |-> sid, i |-> 0,
                      sent |-> <<>>]
    /\ sweep = NoSweep
    /\ peer = NoPeer

\* if response_audio_b64 and stream_sid: _send_audio is called and decodes
\* the audio; else nothing is sent
SendGuard ==
    /\ playback.pc = "returned"
    /\ LET response_audio_b64 == B64Encode(Slice(0, playback.audio_len))
       IN IF response_audio_b64.chars > 0 /\ playback.stream_sid # NoSid
            THEN playback' = [playback EXCEPT !.pc = "chunks", !.i = 0,
                                 !.audio_len = B64Decode(response_audio_b64).hi]
            ELSE playback' = [playback EXCEPT !.pc = "nothing"]
    /\ UNCHANGED <<chatVars, connVars, turn, sweep, peer>>

\* one iteration of `for i in range(0, len(audio_bytes), CHUNK_SIZE)`; the
\* send may raise
SendChunk ==
    /\ playback.pc = "chunks"
    /\ playback.i < playback.audio_len
    /\ \E send \in {"ok", "raise"} :
          LET chunk == Slice(playback.i, ChunkEnd(playback.i, playback.audio_len))
          IN IF send = "ok"
               THEN playback' =
                      [playback EXCEPT
                         !.sent = Append(@, MediaMessage(playback.stream_sid,
                                                         B64Encode(chunk))),
                         !.i = @ + CHUNK_SIZE]
               ELSE playback' = [playback EXCEPT !.pc = "raised"]
    /\ UNCHANGED <<chatVars, connVars, turn, sweep, peer>>

\* the range is used up: the mark message is sent and _send_audio returns
SendMark ==
    /\ playback.pc = "chunks"
    /\ playback.i >= playback.audio_len
    /\ \E send \in {"ok", "raise"} :
          IF send = "ok"
            THEN playback' = [playback EXCEPT
                                !.sent = Append(@, MarkMessage(playback.stream_sid)),
                                !.pc = "done"]
            ELSE playback' = [playback EXCEPT !.pc = "raised"]
    /\ UNCHANGED <<chatVars, connVars, turn, sweep, peer>>

NextSend == SendGuard \/ SendChunk \/ SendMark

SpecSend == InitSend /\ [][NextSend]_vars

(***************************************************************************)
(* SpecSlots: the check_availability tool on a day's calendar               *)
(***************************************************************************)
\* the tool is called for a day with some busy periods and a duration
InitSlots ==
    /\ chat = ChatIdle
    /\ chain = 0
    /\ InitConn
    /\ turn = NoTurn
    /\ playback = NoPlayback
    /\ peer = NoPeer
    /\ \E busy \in BusyLists, d \in Durations :
          sweep = [NoSweep EXCEPT !.pc = "fetch", !.busy = busy, !.duration = d]

\* the events query returns the day's events, or raises
FetchEvents ==
    /\ sweep.pc = "fetch"
    /\ \E outcome \in {"ok", "raise"} :
          IF outcome = "ok"
            THEN sweep' = [sweep EXCEPT !.pc = "sweep", !.fetch = "ok",
                                        !.current = DayStart, !.slots = <<>>]
            ELSE sweep' = [sweep EXCEPT !.pc = "returned", !.fetch = "raise",
                                        !.raised = FetchError.raised,
                                        !.slots = FetchError.slots]
    /\ UNCHANGED <<chatVars, connVars, turn, playback, peer>>

\* one iteration of the while loop: the candidate conflicts with a busy
\* period and jumps to its end, or it is appended and the candidate moves on
\* by the stride
SweepStep ==
    /\ sweep.pc = "sweep"
    /\ Fits(sweep.current, sweep.duration)
    /\ LET slot_end == sweep.current + sweep.duration
           k == FirstConflict(sweep.busy, sweep.current, slot_end)
       IN IF k # 0
            THEN sweep' = [sweep EXCEPT !.current = sweep.busy[k].be,
                                        !.candidates = Append(@, sweep.current)]
            ELSE sweep' = [sweep EXCEPT !.slots = Append(@, Slot(sweep.current, slot_end)),
                                        !.current = @ + STRIDE,
                                        !.candidates = Append(@, sweep.current)]
    /\ UNCHANGED <<chatVars, connVars, turn, playback, peer>>

\* the loop ends: return available_slots
SweepReturn ==
    /\ sweep.pc = "sweep"
    /\ ~Fits(sweep.current, sweep.duration)
    /\ sweep' = [sweep EXCEPT !.pc = "returned"]
    /\ UNCHANGED <<chatVars, connVars, turn, playback, peer>>

\* _execute_tool builds the tool result from what get_available_slots did
ToolReturn ==
    /\ sweep.pc = "returned"
    /\ sweep' = [sweep EXCEPT !.pc = "reported",
                               !.payload = CheckAvailability(sweep.raised, sweep.slots)]
    /\ UNCHANGED <<chatVars, connVars, turn, playback, peer>>

NextSlots == FetchEvents \/ SweepStep \/ SweepReturn \/ ToolReturn

SpecSlots == InitSlots /\ [][NextSlots]_vars

\* a call of the tool that has begun goes on: nothing in it waits
FairSlots == SpecSlots /\ WF_vars(NextSlots)

(***************************************************************************)
(* SpecCalls: two connections served at the same time.  Each has the local  *)
(* variables of its own run of websocket_media_stream; the orchestrator's   *)
(* store is the one object both use.  The connection in focus is the one    *)
(* whose coroutine or transport moves next                                  *)
(***************************************************************************)
\* the connection in focus
Me == 3 - peer.conn

\* the identifiers the transport assigned to the call of connection k
CallOf(k) == IF k = 1 THEN "CA1" ELSE "CA2"
StreamOf(k) == IF k = 1 THEN "MZ1" ELSE "MZ2"

InitCalls ==
    /\ chat = ChatIdle
    /\ chain = 0
    /\ turn = NoTurn
    /\ playback = NoPlayback
    /\ sweep = NoSweep
    /\ active_sessions = [c \in {CallOf(1), CallOf(2)} |-> NoSession]
    /\ inbox = FreshLocals.inbox
    /\ pc = FreshLocals.pc
    /\ call_sid = FreshLocals.call_sid
    /\ stream_sid = FreshLocals.stream_sid
    /\ audio_buffer = FreshLocals.audio_buffer
    /\ silence_count = FreshLocals.silence_count
    /\ is_speaking = FreshLocals.is_speaking
    /\ is_processing = FreshLocals.is_processing
    /\ greeting_sent = FreshLocals.greeting_sent
    /\ audio_data = FreshLocals.audio_data
    /\ unacked = FreshLocals.unacked
    /\ to_echo = FreshLocals.to_echo
    /\ acked = FreshLocals.acked
    /\ tx = FreshLocals.tx
    /\ fed = FreshLocals.fed
    /\ skipped = FreshLocals.skipped
    /\ emitted = FreshLocals.emitted
    /\ runs = FreshLocals.runs
    /\ frame_len = FreshLocals.frame_len
    /\ ended = FreshLocals.ended
    /\ peer = [conn |-> 2, local |-> FreshLocals]

\* the events of an orderly call: the start event with the call's own
\* identifiers; after the greeting a frame of speech and silent frames up to
\* the first turn; a stop event before the caller has spoken or after the
\* turn, or the connection closing after the turn
CallsSendable ==
    IF tx.starts = 0 THEN {StartEv(StreamOf(Me), CallOf(Me))}
    ELSE (IF runs = 0
            THEN {MediaEv(Frame(IF fed = <<>> THEN SPEECH_RMS_THRESHOLD + 1 ELSE 0,
                                frame_len))}
            ELSE {DisconnectEv})
         \cup (IF runs > 0 \/ fed = <<>> THEN {StopEv} ELSE {})

\* the transport of the connection in focus sends an event
CallsSend ==
    /\ tx.open
    /\ inbox = <<>>
    /\ to_echo = 0
    /\ \E ev \in CallsSendable :
          /\ inbox' = Append(inbox, Delivered(ev, pc))
          /\ tx' = Sent(ev)
    /\ UNCHANGED <<chatVars, auxVars, turn, ended, active_sessions, pc, call_sid, stream_sid,
                   segVars, is_processing, greeting_sent, audio_data, unacked, to_echo,
                   acked, fed, skipped, emitted, runs, frame_len>>

\* the event loop turns to the other connection
Switch ==
    /\ peer.conn # 0
    /\ peer' = [conn |-> Me, local |-> Locals]
    /\ inbox' = peer.local.inbox
    /\ pc' = peer.local.pc
    /\ call_sid' = peer.local.call_sid
    /\ stream_sid' = peer.local.stream_sid
    /\ audio_buffer' = peer.local.audio_buffer
    /\ silence_count' = peer.local.silence_count
    /\ is_speaking' = peer.local.is_speaking
    /\ is_processing' = peer.local.is_processing
    /\ greeting_sent' = peer.local.greeting_sent
    /\ audio_data' = peer.local.audio_data
    /\ unacked' = peer.local.unacked
    /\ to_echo' = peer.local.to_echo
    /\ acked' = peer.local.acked
    /\ tx' = peer.local.tx
    /\ fed' = peer.local.fed
    /\ skipped' = peer.local.skipped
    /\ emitted' = peer.local.emitted
    /\ runs' = peer.local.runs
    /\ frame_len' = peer.local.frame_len
    /\ ended' = peer.local.ended
    /\ UNCHANGED <<chatVars, turn, playback, sweep, active_sessions>>

NextCalls ==
    \/ CallsSend
    \/ TransportEcho
    \/ HandleStart
    \/ StartCallReturn
    \/ HandleMedia
    \/ PipelineReturn
    \/ HandleStop
    \/ HandleMark
    \/ HandleDisconnect
    \/ Switch

SpecCalls == InitCalls /\ [][NextCalls]_vars

(***************************************************************************)
(* SpecFault: exceptions of the loop body outside the pipeline's try block. *)
(* A message that is no JSON, a media payload that is no base64, a          *)
(* start_call that raises, and a greeting that cannot be sent; pc is        *)
(* "raised" while an exception is on its way to the except clauses of       *)
(* websocket_media_stream                                                   *)
(***************************************************************************)
InitFault ==
    /\ chat = ChatIdle
    /\ chain = 0
    /\ turn = NoTurn
    /\ InitAux
    /\ frame_len \in FrameLens
    /\ silence_count = 0
    /\ skipped = <<>>
    /\ to_echo = 0
    /\ ended = 0
    /\ audio_data = <<>>
    /\ emitted = 0
    /\ runs = 0
    /\ acked = 0
    /\ pc = "recv"
    /\ \/ \* before the start event
          /\ call_sid = NoCall /\ stream_sid = NoSid /\ greeting_sent = FALSE
          /\ active_sessions = [c \in CallSids |-> NoSession]
          /\ \E open \in BOOLEAN :
                tx = [open |-> open, starts |-> 0, spurious |-> 0, odd |-> 0, speech |-> 0]
          /\ is_processing = FALSE /\ unacked = <<>>
          /\ audio_buffer = <<>> /\ is_speaking = FALSE /\ fed = <<>>
          /\ \E first \in {<<Event("unparsable", NoSid, NoCall, NoFrame, "", FALSE)>>, <<>>},
                sid \in StreamSids, c \in CallSids :
                inbox = first \o <<StartEv(sid, c), MediaEv(Frame(0, frame_len))>>
       \/ \* during the call, the greeting playing or the caller speaking
          /\ call_sid \in CallSids /\ stream_sid \in StreamSids /\ greeting_sent = TRUE
          /\ \E n \in {1, 3, 5} :
                active_sessions = [c \in CallSids |->
                                     [present |-> TRUE, history |-> History(n),
                                      is_active |-> TRUE]]
          /\ tx = [open |-> TRUE, starts |-> 1, spurious |-> 0, odd |-> 0, speech |-> 1]
          /\ \/ /\ is_processing = TRUE /\ unacked = <<"greeting">>
                /\ audio_buffer = <<>> /\ is_speaking = FALSE
             \/ /\ is_processing = FALSE /\ unacked = <<>>
                /\ \/ audio_buffer = <<>> /\ is_speaking = FALSE
                   \/ /\ audio_buffer = <<Frame(SPEECH_RMS_THRESHOLD + 1, frame_len)>>
                      /\ is_speaking = TRUE
          /\ fed = audio_buffer
          /\ \E bad \in {"unparsable", "badmedia"},
                later \in {MediaEv(Frame(0, frame_len)),
                           MediaEv(Frame(SPEECH_RMS_THRESHOLD + 1, frame_len)), StopEv} :
                inbox = <<Event(bad, NoSid, NoCall, NoFrame, "", FALSE), later>>

\* data = json.loads(message) raises: the message is no JSON
HandleUnparsable ==
    /\ Received("unparsable")
    /\ pc' = "raised"
    /\ UNCHANGED <<chatVars, auxVars, turn, ended, active_sessions, call_sid, stream_sid,
                   segVars, is_processing, greeting_sent, audio_data, unacked, to_echo,
                   acked, tx, fed, skipped, emitted, runs, frame_len>>

\* a media event whose payload is no base64: skipped under suppression like
\* every media event, else base64.b64decode(payload) raises
HandleBadMedia ==
    /\ Received("badmedia")
    /\ pc' = IF Suppressed(is_processing) THEN pc ELSE "raised"
    /\ UNCHANGED <<chatVars, auxVars, turn, ended, active_sessions, call_sid, stream_sid,
                   segVars, is_processing, greeting_sent, audio_data, unacked, to_echo,
                   acked, tx, fed, skipped, emitted, runs, frame_len>>

\* start_call raises in its thread, after it stored the new session and
\* before it appended the greeting
StartCallRaises ==
    /\ pc = "start_call"
    /\ active_sessions' = [active_sessions EXCEPT ![call_sid] =
                              [present |-> TRUE, history |-> <<>>, is_active |-> TRUE]]
    /\ pc' = "raised"
    /\ UNCHANGED <<chatVars, auxVars, turn, ended, inbox, call_sid, stream_sid, segVars,
                   is_processing, greeting_sent, audio_data, unacked, to_echo, acked, tx,
                   fed, skipped, emitted, runs, frame_len>>

\* the except clause does nothing about the session
ExceptNoTeardown(sessions, sid) == sessions

\* except Exception: if call_sid: call_orchestrator.end_call(call_sid)
ExceptTeardown(sessions, sid) ==
    IF sid # NoCall THEN EndCall(sessions, sid) ELSE sessions

\* the exception has left the async-for; the except clause runs and
\* websocket_media_stream returns
ExceptHandler ==
    /\ pc = "raised"
    /\ active_sessions' = ExceptTeardown(active_sessions, call_sid)
    /\ ended' = IF call_sid # NoCall THEN ended + EndCallLogs(active_sessions, call_sid)
                                     ELSE ended
    /\ pc' = "closed"
    /\ UNCHANGED <<chatVars, auxVars, turn, inbox, call_sid, stream_sid, segVars,
                   is_processing, greeting_sent, audio_data, unacked, to_echo, acked, tx,
                   fed, skipped, emitted, runs, frame_len>>

NextFault ==
    \/ HandleUnparsable
    \/ HandleBadMedia
    \/ HandleStart
    \/ StartCallReturn
    \/ StartCallRaises
    \/ ExceptHandler
    \/ HandleMedia
    \/ HandleStop

SpecFault == InitFault /\ [][NextFault]_vars

(***************************************************************************)
(* Properties of LLMAgent.chat (checked under SpecChat)                     *)
(***************************************************************************)
\* what is left of a history h after trimming, written out: h itself up to
\* 40 entries, else its first 4 entries followed by its last 36
KeptHistory(h) ==
    IF Len(h) <= 40 THEN h ELSE SubSeq(h, 1, 4) \o SubSeq(h, Len(h) - 35, Len(h))

\* chat returned because the round loop ran out
Exhausted == chat.pc = "returned" /\ chat.last = "tools"

\* C7: one chat call makes at most 5 backend invocations whatever the backend
\* answers; after the 5th tool round no further invocation is possible, the
\* call returns, and what it returns is the stall-recovery phrase.
C7_RoundBudget ==
    /\ chat.backend_calls <= 5
    /\ (chat.pc = "loop" /\ chat.backend_calls = 5) =>
          (~ENABLED ChatRoundStep /\ ENABLED ChatExhaustedStep)
    /\ Exhausted => (chat.backend_calls = 5 /\ chat.text = STALL_PHRASE)

C7_Witness ==
    Exhausted /\ chat.backend_calls = 5 /\ chat.text = STALL_PHRASE

\* C8 as stated: on exhaustion the returned history equals the input history
\* exactly, for every input history of any length.
C8_ExhaustedReturnsInput ==
    Exhausted => Returned(chat) = chat.input

\* C8 amended: on exhaustion the returned history is the input history after
\* trimming (the input itself when it has at most 40 entries, else its first
\* 4 and last 36 entries); no record of this turn is added to it.
C8_ExhaustedReturnsTrimmed ==
    Exhausted => Returned(chat) = KeptHistory(chat.input)

C8_Witness ==
    Exhausted /\ Len(chat.input) > 40 /\ Len(Returned(chat)) = 40

\* C9 as stated: when a backend invocation raises, chat returns the fallback
\* phrase and the original history unchanged.
C9_ErrorReturnsInput ==
    chat.last = "raise" =>
        /\ chat.pc = "returned"
        /\ chat.text = FALLBACK_PHRASE
        /\ Returned(chat) = chat.input

\* C9 amended: a backend invocation that raises, at whatever round, ends the
\* call in that step: nothing is dispatched, nothing is appended to the
\* message list, no further invocation is possible, and chat returns the
\* fallback phrase with the trimmed input history (the input itself when it
\* has at most 40 entries), without the user entry or any tool record.
C9_ErrorAborts ==
    /\ [](chat.last = "raise" =>
            /\ chat.pc = "returned"
            /\ ~ENABLED ChatRoundStep
            /\ chat.text = FALLBACK_PHRASE
            /\ Returned(chat) = KeptHistory(chat.input))
    /\ [][(chat.pc = "loop" /\ chat'.last = "raise") =>
            /\ chat'.backend_calls = chat.backend_calls + 1
            /\ chat'.dispatches = chat.dispatches
            /\ chat'.tools_called = chat.tools_called
            /\ chat'.messages = chat.messages]_vars

C9_Witness ==
    chat.last = "raise" /\ chat.pc = "returned" /\ chat.round_num >= 2
      /\ Len(chat.input) > 40

\* the final-answer return of chat
FinalAnswer == chat.pc = "returned" /\ chat.last = "text"

\* the parts of C10 that do not speak of the length
C10_Shape ==
    /\ Returned(chat) = KeptHistory(chat.input)
                          \o <<Msg("user", chat.user_message), Msg("assistant", chat.text)>>
    /\ \A i \in 1..Len(Returned(chat)) :
          /\ Returned(chat)[i].role \in {"user", "assistant"}
          /\ Returned(chat)[i].tool_calls = <<>>
          /\ Returned(chat)[i].tool_call_id = ""
    /\ chat.heap["caller"] = chat.input

\* C10 as stated: after a final answer the returned history is the trimmed
\* input plus {user}, {assistant}, holds no system or tool record, the
\* caller's list is not mutated, and the history has grown by 2.
C10_GrowsByTwo ==
    FinalAnswer => (C10_Shape /\ Len(Returned(chat)) = Len(chat.input) + 2)

\* C10 amended: as stated, but the history grows by 2 only when the input has
\* at most 40 entries; from a longer input the result has exactly 42.
C10_FinalAnswerHistory ==
    FinalAnswer =>
        /\ C10_Shape
        /\ Len(chat.input) <= 40 => Len(Returned(chat)) = Len(chat.input) + 2
        /\ Len(chat.input) > 40 => Len(Returned(chat)) = 42

C10_Witness ==
    FinalAnswer /\ chain = 2 /\ chat.round_num >= 1
      /\ Len(Returned(chat)) = Len(chat.input) + 2 /\ Len(chat.input) >= 2

\* the history entries of the message list chat has built: what follows the
\* system message, up to the user message of this turn
SentHistory(c) == SubSeq(c.messages, 2, Len(c.heap[c.conversation_history]) + 1)

\* C11: the history chat puts in the message list is the input itself when
\* the input has at most 40 entries; otherwise it has exactly 40 entries, the
\* first 4 of the input followed by its last 36 in their order; trimming the
\* result again changes nothing
C11_Trimming ==
    chat.pc # "idle" =>
       LET h == chat.input
           t == SentHistory(chat)
       IN /\ Len(h) <= 40 => t = h
          /\ Len(h) > 40 =>
                /\ Len(t) = 40
                /\ \A i \in 1..4 : t[i] = h[i]
                /\ \A i \in 5..40 : t[i] = h[Len(h) - 40 + i]
          /\ Trim(t) = t
          /\ chat.messages[1] = SystemMessage
          /\ chat.messages[Len(t) + 2] = Msg("user", chat.user_message)

\* a history of 42 entries was trimmed, and the entry after the first 4 kept
\* is the 7th of the input
C11_Witness ==
    /\ chat.pc = "loop"
    /\ Len(chat.input) = 42
    /\ Len(SentHistory(chat)) = 40
    /\ SentHistory(chat)[5] = HistEntry(7)

\* C12: over a chain of turns, whatever their outcomes, the history sent to
\* the backend has at most 40 entries and the history a turn returns, which
\* the session stores, has at most 42
C12_HistoryBounded ==
    /\ chat.pc # "idle" => Len(SentHistory(chat)) <= 40
    /\ chat.pc = "returned" => Len(Returned(chat)) <= 42

\* a second turn on a stored history of 42 entries returned 42 entries again
C12_Witness ==
    /\ chat.pc = "returned"
    /\ chain = 2
    /\ Len(chat.input) = 42
    /\ Len(Returned(chat)) = 42

\* the tool-result records of a message list, in their order
ToolResults(msgs) == SelectSeq(msgs, LAMBDA m : m.role = "tool")

\* C13: whichever way chat returns, tools_called lists the names of the tool
\* invocations dispatched in this turn, one entry per dispatch in dispatch
\* order; it is empty when nothing was dispatched
C13_ToolsCalled ==
    chat.pc = "returned" =>
       LET results == ToolResults(chat.messages)
       IN /\ Len(chat.tools_called) = chat.dispatches
          /\ Len(results) = chat.dispatches
          /\ \A i \in 1..Len(results) : chat.tools_called[i] = results[i].content.tool
          /\ chat.dispatches = 0 => chat.tools_called = <<>>

\* a turn that ended in a backend failure after two tool rounds of two calls
\* each: the list has a name twice
C13_Witness ==
    /\ chat.pc = "returned"
    /\ chat.last = "raise"
    /\ Len(chat.tools_called) = 4
    /\ chat.tools_called[1] = chat.tools_called[3]

\* the records of tool rounds: an assistant record with its tool calls, then
\* one tool-result record per call, tagged with the call's id, in the calls'
\* order, and so on for the next round
RECURSIVE RoundRecords(_)
RoundRecords(msgs) ==
    \/ msgs = <<>>
    \/ /\ Head(msgs).role = "assistant"
       /\ Head(msgs).tool_calls # <<>>
       /\ LET tcs == Head(msgs).tool_calls
          IN /\ Len(msgs) >= 1 + Len(tcs)
             /\ \A i \in 1..Len(tcs) :
                   /\ msgs[1 + i].role = "tool"
                   /\ msgs[1 + i].tool_call_id = tcs[i].id
                   /\ msgs[1 + i].content.tool = tcs[i].name
             /\ RoundRecords(SubSeq(msgs, 2 + Len(tcs), Len(msgs)))

\* C14: what chat has appended to the message list after the user message is,
\* at every backend invocation, the records of whole tool rounds
C14_RoundOrder ==
    chat.pc # "idle" =>
       /\ RoundRecords(SubSeq(chat.messages, Len(SentHistory(chat)) + 3, Len(chat.messages)))
       /\ chat.last = "tools" =>
             Len(chat.messages) = Len(SentHistory(chat)) + 2 + chat.backend_calls + chat.dispatches

\* two rounds of two tool calls each are on the message list
C14_Witness ==
    /\ chat.pc = "loop"
    /\ chat.round_num = 2
    /\ chat.dispatches = 4
    /\ chat.messages[Len(chat.messages)].tool_call_id = "tc2"

\* C15: every dispatch yields a result record and none raises; the failing
\* cases (unknown name, missing arguments, collaborator exception) yield an
\* error payload, the others do not; the turn goes on to the next round
C15_DispatcherNeverRaises ==
    chat.pc # "idle" =>
       LET results == ToolResults(chat.messages)
       IN /\ Len(results) = chat.dispatches
          /\ \A i \in 1..Len(results) : results[i].content.status \in {"ok", "error"}
          /\ CountTrue([i \in 1..Len(results) |-> results[i].content.status = "error"])
               = chat.failed
          /\ chat.last = "tools" => chat.pc = "loop" \/ Exhausted

\* a round with a collaborator exception and a round with unparsable
\* arguments and an unknown tool were dispatched, and the turn went on
C15_Witness ==
    /\ chat.pc = "loop"
    /\ chat.round_num = 2
    /\ chat.failed = 3
    /\ chat.dispatches = 4

(***************************************************************************)
(* Properties of the connection loop and its segmenter (checked under Spec  *)
(* and FairSpec)                                                            *)
(***************************************************************************)
\* the loop takes a media event from the transport
TakesMedia ==
    /\ pc = "recv"
    /\ inbox # <<>>
    /\ Head(inbox).event = "media"
    /\ inbox' = Tail(inbox)

\* the loop takes a mark event from the transport
TakesMark ==
    /\ pc = "recv"
    /\ inbox # <<>>
    /\ Head(inbox).event = "mark"
    /\ inbox' = Tail(inbox)

\* the segmenter is in its initial state
SegmenterReset == audio_buffer = <<>> /\ ~is_speaking /\ silence_count = 0

\* a response whose marker the transport has not echoed yet
ResponsePlaying == \E i \in DOMAIN unacked : unacked[i] = "response"

\* C1 as stated: whatever the transport sends, no pipeline run is in progress
\* while the response audio of an earlier run still awaits its
\* acknowledgment
C1_OneCycleInFlight == pc = "pipeline" => ~ResponsePlaying

\* C1, amended: when the transport sends a single start event and sends
\* response_end marks only as echoes of the markers it was sent, no marker at
\* all is outstanding while a pipeline run is in progress
C1_OneCycleOrderlyTransport ==
    (pc = "pipeline" /\ tx.starts <= 1 /\ tx.spurious = 0) => unacked = <<>>

\* a second run in progress, after the response of the first was played and
\* acknowledged
C1_Witness ==
    pc = "pipeline" /\ runs = 2 /\ acked = 1 /\ tx.starts = 1 /\ tx.spurious = 0

\* C2: while is_processing is set, a media event leaves the buffer, the
\* speaking flag and the silence counter as they are and starts no pipeline
\* run, whatever the frame
C2_SuppressedMediaIgnored ==
    [][(is_processing /\ TakesMedia)
         => (/\ UNCHANGED <<audio_buffer, is_speaking, silence_count>>
             /\ UNCHANGED <<audio_data, runs, emitted, is_processing>>
             /\ pc' = "recv")]_vars

\* a frame above the speech threshold was discarded under suppression
C2_Witness ==
    /\ is_processing
    /\ pc = "recv"
    /\ skipped # <<>>
    /\ IsSpeech(skipped[1].rms)

\* N frames above the speech threshold followed by at least
\* SILENCE_THRESHOLD frames that are not
SpeechThenPause(frames) ==
    \E N \in 1..Len(frames) :
       /\ Len(frames) - N >= SILENCE_THRESHOLD
       /\ \A i \in 1..N : IsSpeech(frames[i].rms)
       /\ \A i \in (N + 1)..Len(frames) : ~IsSpeech(frames[i].rms)

\* C3 as stated: once the frames fed to a freshly reset, unsuppressed
\* segmenter are N >= 1 speech frames followed by M >= 30 silent ones and
\* make up at least 3200 bytes, exactly one utterance was emitted, it holds
\* all these frames, and the segmenter is reset
C3_EmitsWholeSequence ==
    (SpeechThenPause(fed) /\ Bytes(fed) >= CHUNK_THRESHOLD)
       => (/\ emitted = 1
           /\ SegmenterReset
           /\ (pc = "pipeline" => audio_data = fed))

\* C4 as stated: a frame taken while suppression is clear emits an utterance
\* exactly when, with the frame accounted for, speaking is true, the silence
\* counter is at least 30 and the buffer holds at least 3200 bytes; the
\* emission resets the segmenter and sets suppression
C4_EmitsExactlyWhen ==
    [][(~is_processing /\ TakesMedia /\ Head(inbox).frame.n > 0)
         => LET frame == Head(inbox).frame
                speaking == is_speaking \/ IsSpeech(frame.rms)
                silence == IF IsSpeech(frame.rms) THEN 0
                           ELSE IF is_speaking THEN silence_count + 1 ELSE silence_count
                bytes == Bytes(audio_buffer) + frame.n
            IN /\ (pc' = "pipeline")
                    <=> (speaking /\ silence >= SILENCE_THRESHOLD /\ bytes >= CHUNK_THRESHOLD)
               /\ (pc' = "pipeline")
                    => (/\ audio_buffer' = <<>> /\ ~is_speaking' /\ silence_count' = 0
                        /\ is_processing'
                        /\ audio_data' = Append(audio_buffer, frame))
               /\ (pc' # "pipeline")
                    => (/\ audio_buffer' = Append(audio_buffer, frame)
                        /\ is_speaking' = speaking
                        /\ silence_count' = silence
                        /\ ~is_processing')]_vars

\* C5: once suppression is set (by the greeting or by an emission), it is
\* eventually cleared or the connection is torn down, given that the backend
\* calls return or raise and that the transport echoes the markers
C5_EventuallyListening == is_processing ~> (~is_processing \/ pc = "closed")

\* both reset paths were taken on one connection: the response of the first
\* turn was acknowledged, and the second turn produced no audio
C5_Witness ==
    /\ pc = "recv"
    /\ ~is_processing
    /\ runs = 2
    /\ acked = 1
    /\ unacked = <<>>
    /\ tx.spurious = 0
    /\ tx.starts = 1

\* PLAYING: audio and its marker were sent and suppression is set
Playing == is_processing /\ pc = "recv"

\* C6: in PLAYING suppression is cleared by a mark event named response_end
\* and by nothing else, and that event resets the segmenter; media events and
\* marks of another name leave suppression and the segmenter as they are
C6_OnlyResponseEndResumes ==
    [][Playing
         => /\ ~is_processing'
                 => (TakesMark /\ Head(inbox).name = "response_end" /\ SegmenterReset')
            /\ (TakesMark /\ Head(inbox).name = "response_end")
                 => (~is_processing' /\ SegmenterReset')
            /\ (TakesMedia \/ (TakesMark /\ Head(inbox).name # "response_end"))
                 => UNCHANGED <<is_processing, audio_buffer, is_speaking, silence_count>>]_vars

\* the greeting was played and acknowledged on a connection that also got
\* an event or frame the loop ignores, and the call listens again
C6_Witness ==
    /\ pc = "recv"
    /\ ~is_processing
    /\ greeting_sent
    /\ unacked = <<>>
    /\ runs = 0
    /\ tx.odd = 1
    /\ tx.starts = 1
    /\ fed # <<>>

\* the loop takes a frame with a payload that was delivered while a turn was
\* in flight
TakesFrameOfTurn ==
    /\ TakesMedia
    /\ Head(inbox).during_turn
    /\ Head(inbox).frame.n > 0

C24_FramesOfTurnIgnored ==
    [][TakesFrameOfTurn => (audio_buffer' = audio_buffer /\ audio_data' = audio_data)]_vars

\* a control event (stop or mark) is waiting while a pipeline run is in flight
ControlWaitsForRun ==
    /\ pc = "pipeline"
    /\ inbox # <<>>
    /\ Head(inbox).event \in {"stop", "mark"}

\* C25 as stated: while a pipeline run is in flight the loop can receive and
\* handle a stop or mark event that has arrived
C25_ControlHandledDuringRun ==
    ControlWaitsForRun => ENABLED (HandleStop \/ HandleMark)

\* the connection's loop has ended after a start event was handled
CallEnded == pc = "closed" /\ call_sid # NoCall

\* C19 as stated: whatever stop, disconnect and error events a call gets, its
\* session is removed and log_call_end is called exactly once; end_call on a
\* session already removed changes nothing and logs nothing
C19_TornDownExactlyOnce ==
    /\ ended <= 1
    /\ CallEnded => (ended = 1 /\ ~active_sessions[call_sid].present)
    /\ \A c \in CallSids :
          LET after == EndCall(active_sessions, c)
          IN EndCall(after, c) = after /\ EndCallLogs(after, c) = 0

\* C20 as stated: once the loop of a connection has ended, by a stop event,
\* a disconnect or an error, the session of its call is no longer in the store
C20_EndedCallTornDown == CallEnded => ~active_sessions[call_sid].present

(***************************************************************************)
(* Properties of the turn pipeline (checked under SpecTurn)                 *)
(***************************************************************************)
\* the history the session stores
Stored == active_sessions[call_sid].history

\* no marker, hence no audio, was sent for the turn
NothingSent == unacked = <<>> /\ to_echo = 0

\* LISTENING: the loop waits for events with suppression clear
Listening == pc = "recv" /\ ~is_processing

\* the conversation engine's run of the recorded turn
TurnChat == Chat(turn.before, Text("utterance", runs), turn.llm)

\* the transcription raised, or the conversation engine raised or met a
\* backend failure
StageFailed ==
    \/ turn.stt = "raise"
    \/ turn.stt = "text" /\ (turn.llm = <<>> \/ TurnChat.last = "raise")

\* C16 as stated: when the transcription or the conversation engine fails,
\* process_customer_audio returns the stage's fallback phrase with its
\* synthesized audio, the call is in PLAYING, no later stage ran and the
\* stored history is what it was
C16_FailureSpeaksFallback ==
    (turn.pc = "returned" /\ StageFailed /\ turn.send = "ok") =>
       /\ ~turn.raised
       /\ turn.text = (IF turn.stt = "raise" THEN STT_FALLBACK
                       ELSE IF turn.llm = <<>> THEN LLM_FALLBACK ELSE FALLBACK_PHRASE)
       /\ turn.audio # ""
       /\ Playing /\ unacked = <<"response">>
       /\ turn.stt = "raise" => turn.calls = <<"stt", "tts">>
       /\ Stored = turn.before

\* C17: an empty or whitespace-only transcript ends the turn with no output:
\* no backend but the transcription is invoked, the history is as before,
\* nothing is sent and the call is back in LISTENING
C17_BlankTranscript ==
    (turn.pc = "returned" /\ turn.stt \in {"empty", "blank"}) =>
       /\ turn.calls = <<"stt">>
       /\ ~turn.raised
       /\ turn.text = EmptyText
       /\ turn.audio = ""
       /\ Stored = turn.before
       /\ NothingSent
       /\ Listening

\* a whitespace-only transcript on a call with 41 stored entries
C17_Witness ==
    /\ turn.pc = "returned"
    /\ turn.stt = "blank"
    /\ Len(turn.before) = 41
    /\ Len(Stored) = 41
    /\ Listening

\* C18: when the synthesis of the agent's reply raises, no exception leaves
\* process_customer_audio, which returns the reply with empty audio; nothing
\* is sent and the call is back in LISTENING
C18_SynthesisFailureSilent ==
    (turn.pc = "returned" /\ turn.stt = "text" /\ turn.llm # <<>> /\ turn.tts = "raise") =>
       /\ ~turn.raised
       /\ turn.text = TurnChat.text
       /\ turn.text \notin {STT_FALLBACK, LLM_FALLBACK}
       /\ turn.audio = ""
       /\ NothingSent
       /\ Listening

\* the engine answered after a tool round, the synthesis raised, and the
\* turn is stored although the caller heard nothing
C18_Witness ==
    /\ turn.pc = "returned"
    /\ turn.tts = "raise"
    /\ turn.text = Text("final", 0)
    /\ Len(turn.llm) = 2
    /\ Len(Stored) = Len(turn.before) + 2
    /\ Listening

\* is s an initial segment of t
IsPrefix(s, t) == Len(s) <= Len(t) /\ SubSeq(t, 1, Len(s)) = s

\* C23 as stated: for every turn, the history stored before the turn is a
\* prefix of the history stored after it
C23_AppendOnly == turn.pc = "returned" => IsPrefix(turn.before, Stored)

\* C23, amended: a turn on a stored history of at most 40 entries only
\* appends to it; a turn that reaches the conversation engine on a longer
\* history first replaces it by its first 4 and last 36 entries and appends
\* to those; what a turn appends is nothing, or its user entry followed by
\* its assistant entry
C23_AppendOnlyUpToTrim ==
    turn.pc = "returned" =>
       LET kept == IF turn.stt = "text" /\ turn.llm # <<>> THEN KeptHistory(turn.before)
                   ELSE turn.before
       IN /\ IsPrefix(kept, Stored)
          /\ Len(turn.before) <= MAX_HISTORY => kept = turn.before
          /\ \/ Stored = kept
             \/ Stored = kept \o <<Msg("user", Text("utterance", runs)),
                                   Msg("assistant", turn.text)>>

\* a turn on 39 stored entries appended its two entries
C23_Witness ==
    /\ turn.pc = "returned"
    /\ Len(turn.before) = 39
    /\ Len(Stored) = 41
    /\ IsPrefix(turn.before, Stored)
    /\ Stored[41] = Msg("assistant", Text("final", 0))

(***************************************************************************)
(* Properties of a connection without a session (checked under SpecGone)    *)
(***************************************************************************)
\* C21: process_customer_audio for a call identifier with no session in the
\* store returns ("", "") without raising, invokes neither transcription nor
\* the conversation engine nor synthesis and creates no session; and once a
\* stop event was handled the connection handles no media event: the frame
\* behind the stop stays unread and the segmenter is as it was
C21_NoAudioAfterTeardown ==
    /\ turn.pc = "returned" =>
          /\ ~turn.raised
          /\ turn.text = EmptyText /\ turn.audio = ""
          /\ turn.calls = <<>>
          /\ \A c \in CallSids : active_sessions[c] \in {NoSession, GoneSession}
          /\ NothingSent
    /\ (pc = "closed" /\ ended = 1) =>
          /\ MediaIn(inbox) = 1
          /\ SegmenterReset /\ fed = <<>> /\ skipped = <<>> /\ runs = 0
          /\ ~active_sessions[call_sid].present

\* the pipeline ran for a call whose session was torn down, while the
\* backends were all up, and returned the empty pair
C21_Witness ==
    /\ turn.pc = "returned"
    /\ call_sid \in CallSids
    /\ turn.stt = "text" /\ turn.tts = "ok" /\ Len(turn.llm) = 2
    /\ turn.text = EmptyText /\ turn.audio = ""

(***************************************************************************)
(* Properties of _send_audio (checked under SpecSend)                       *)
(***************************************************************************)
\* the media messages among those sent
Chunks == SelectSeq(playback.sent, LAMBDA m : m.event = "media")

\* the bytes a media message carries
Carried(m) == B64Decode(m.payload)

\* the chunks sent so far are at most 8000 bytes each, none empty, and in
\* order make up an initial part of the audio
ChunksInOrder ==
    /\ \A k \in DOMAIN Chunks :
          /\ Carried(Chunks[k]).hi - Carried(Chunks[k]).lo \in 1..8000
          /\ Carried(Chunks[k]).lo = (IF k = 1 THEN 0 ELSE Carried(Chunks[k - 1]).hi)
          /\ Chunks[k].streamSid = playback.stream_sid
    /\ Chunks # <<>> => Carried(Chunks[Len(Chunks)]).hi <= playback.audio_len

\* C27: whatever _send_audio has sent so far is chunks of the audio of at
\* most 8000 bytes each, in order; when it returns for an audio that is not
\* empty, the chunks make up the whole audio and are followed by one
\* response_end mark, the only mark and the last message; and a turn without
\* audio sends nothing
C27_PlaybackSequencing ==
    /\ ChunksInOrder
    /\ \A k \in DOMAIN playback.sent :
          playback.sent[k].event = "mark" =>
             /\ k = Len(playback.sent)
             /\ playback.sent[k].name = "response_end"
             /\ playback.pc = "done"
    /\ playback.pc = "done" =>
          /\ playback.audio_len > 0
          /\ Len(playback.sent) = Len(Chunks) + 1
          /\ Chunks # <<>>
          /\ Carried(Chunks[Len(Chunks)]).hi = playback.audio_len
          /\ playback.sent[Len(playback.sent)] = MarkMessage(playback.stream_sid)
    /\ playback.audio_len = 0 => (playback.sent = <<>> /\ playback.pc # "chunks")
    /\ playback.pc = "nothing" => playback.sent = <<>>

\* an audio of 16001 bytes went out as chunks of 8000, 8000 and 1 bytes and
\* the mark
C27_Witness ==
    /\ playback.pc = "done"
    /\ playback.audio_len = 16001
    /\ Len(playback.sent) = 4
    /\ Carried(playback.sent[3]) = Slice(16000, 16001)
    /\ playback.sent[4].event = "mark"

(***************************************************************************)
(* Properties of the slot search (checked under SpecSlots)                  *)
(***************************************************************************)
\* the instants the returned slots start at, in order
StartTimes == [k \in DOMAIN sweep.slots |-> Minutes(sweep.slots[k].start_time)]

\* do [s, e) and the busy period b have an instant in common
Overlap(s, e, b) == \E t \in s..(e - 1) : b.bs <= t /\ t < b.be

\* the slot search has returned the slots of a day whose events it got
SlotsReturned == sweep.pc \in {"returned", "reported"} /\ sweep.fetch = "ok"

\* C28: every slot found is an interval [s, s + duration) with 09:00 <= s and
\* s + duration <= 19:00 that has no instant in common with any busy period
\* of the day; and with the one busy period [10:00, 11:00) and 60 minutes the
\* slots starting 09:00 and 11:00 are returned and none starting 10:00 is
C28_SlotsSound ==
    /\ \A k \in DOMAIN sweep.slots :
          LET st == Minutes(sweep.slots[k].start_time)
              en == Minutes(sweep.slots[k].end_time)
          IN /\ DayStart <= st
             /\ en = st + sweep.duration
             /\ en <= DayEnd
             /\ \A j \in DOMAIN sweep.busy : ~Overlap(st, en, sweep.busy[j])
    /\ (SlotsReturned /\ sweep.busy = <<Busy(600, 660)>> /\ sweep.duration = 60) =>
          /\ \E k \in DOMAIN sweep.slots : sweep.slots[k].start_time = [hh |-> 9, mm |-> 0]
          /\ \E k \in DOMAIN sweep.slots : sweep.slots[k].start_time = [hh |-> 11, mm |-> 0]
          /\ \A k \in DOMAIN sweep.slots : sweep.slots[k].start_time # [hh |-> 10, mm |-> 0]

\* the day with the busy period [10:00, 11:00): the search for 60 minutes
\* returned 09:00, then 11:00 and the half hours after it
C28_Witness ==
    /\ SlotsReturned
    /\ sweep.busy = <<Busy(600, 660)>>
    /\ sweep.duration = 60
    /\ Len(sweep.slots) = 16
    /\ StartTimes[1] = 540 /\ StartTimes[2] = 660 /\ StartTimes[16] = 1080

\* C29: on an empty calendar the search for 60 minutes returns 19 slots,
\* from 09:00-10:00 to 18:00-19:00, their starts 30 minutes apart, each
\* with its start_time and its end_time
C29_EmptyCalendar ==
    (SlotsReturned /\ sweep.busy = <<>> /\ sweep.duration = 60) =>
       /\ Len(sweep.slots) = 19
       /\ sweep.slots[1].start_time = [hh |-> 9, mm |-> 0]
       /\ sweep.slots[1].end_time = [hh |-> 10, mm |-> 0]
       /\ sweep.slots[19].start_time = [hh |-> 18, mm |-> 0]
       /\ sweep.slots[19].end_time = [hh |-> 19, mm |-> 0]
       /\ \A k \in 1..18 : StartTimes[k + 1] = StartTimes[k] + 30
       /\ \A k \in 1..19 :
             Minutes(sweep.slots[k].end_time) = Minutes(sweep.slots[k].start_time) + 60

\* the tool has reported the 19 slots of an empty day, the first five of
\* them in full
C29_Witness ==
    /\ sweep.pc = "reported"
    /\ sweep.busy = <<>>
    /\ sweep.duration = 60
    /\ sweep.payload.status = "available"
    /\ sweep.payload.total_available = 19
    /\ Len(sweep.payload.slots) = 5

\* C30: when the events query raises, get_available_slots returns the empty
\* list and raises nothing, and the tool reports no_slots, the result it
\* reports for a day without a free slot, and no error
C30_FetchErrorIsNoSlots ==
    /\ (sweep.pc \in {"returned", "reported"} /\ sweep.fetch = "raise") =>
          (~sweep.raised /\ sweep.slots = <<>>)
    /\ (sweep.pc = "reported" /\ (sweep.fetch = "raise" \/ sweep.slots = <<>>)) =>
          sweep.payload = [status |-> "no_slots", slots |-> <<>>, total_available |-> 0]

\* the query raised on a day with a free morning, and the tool reported
\* no_slots
C30_Witness ==
    /\ sweep.pc = "reported"
    /\ sweep.fetch = "raise"
    /\ sweep.busy = <<Busy(600, 660)>>
    /\ sweep.payload.status = "no_slots"

(***************************************************************************)
(* Properties of simultaneous calls (checked under SpecCalls)               *)
(***************************************************************************)
\* the session slot of the call of connection k
SessionOf(k) == active_sessions[CallOf(k)]

\* C26: simultaneous calls are independent.  No step of a connection (an
\* event it receives, its start_call, its turn, its teardown, or a send of
\* its transport) changes the session of the other connection (its presence
\* in the store, its history, its active flag) or any local variable of the
\* other connection, its segmenter state among them; and the event loop's
\* turning from one connection to the other changes nothing of either
C26_CallsIndependent ==
    [][IF peer'.conn = peer.conn
         THEN /\ peer' = peer
              /\ SessionOf(peer.conn)' = SessionOf(peer.conn)
         ELSE /\ peer'.local = Locals
              /\ Locals' = peer.local
              /\ active_sessions' = active_sessions]_vars

\* both calls are active: the one in focus has had a turn and its response
\* is playing, the other one is in the middle of an utterance, its session
\* as start_call stored it
C26_Witness ==
    /\ peer.conn # 0
    /\ pc = "recv" /\ runs = 1 /\ is_processing /\ unacked = <<"response">>
    /\ SessionOf(Me).present /\ SessionOf(Me).is_active
    /\ Len(SessionOf(Me).history) = 3
    /\ peer.local.pc = "recv" /\ peer.local.is_speaking
    /\ Len(peer.local.audio_buffer) > 1
    /\ SessionOf(peer.conn) =
          [present |-> TRUE, history |-> <<Msg("assistant", GREETING)>>, is_active |-> TRUE]

(***************************************************************************)
(* Properties of the sweep's progress (checked under FairSlots and          *)
(* SpecSlots)                                                               *)
(***************************************************************************)
\* the sweep's loop takes a step
SweepMoves == sweep.pc = "sweep" /\ sweep' # sweep

\* C31: the sweep terminates.  Every iteration moves the candidate strictly
\* forward, by the 30 minutes of the stride after a slot was appended or to
\* the end of the first busy period the candidate conflicts with; the loop
\* is left only when the candidate's slot would end after 19:00; and every
\* call of the tool comes to its result
C31_SweepTerminates ==
    /\ [][SweepMoves =>
            LET c == sweep.current
                e == c + sweep.duration
            IN \/ /\ sweep'.pc = "returned"
                  /\ e > DayEnd
                  /\ sweep'.current = c /\ sweep'.slots = sweep.slots
               \/ /\ sweep'.pc = "sweep"
                  /\ e <= DayEnd
                  /\ sweep'.slots = Append(sweep.slots, Slot(c, e))
                  /\ sweep'.current = c + 30
               \/ /\ sweep'.pc = "sweep"
                  /\ e <= DayEnd
                  /\ sweep'.slots = sweep.slots
                  /\ sweep'.current > c
                  /\ \E k \in DOMAIN sweep.busy :
                        /\ Conflict(c, e, sweep.busy[k])
                        /\ \A j \in 1..(k - 1) : ~Conflict(c, e, sweep.busy[j])
                        /\ sweep'.current = sweep.busy[k].be]_vars
    /\ <>(sweep.pc = "reported")

\* the sweep has returned after jumps and slots on a day whose busy periods
\* overlap, are listed out of order and reach outside the business hours
C31_Witness ==
    /\ sweep.pc = "reported"
    /\ sweep.fetch = "ok"
    /\ sweep.busy = <<Busy(645, 1200), Busy(480, 660)>>
    /\ sweep.duration = 45
    /\ sweep.candidates = <<540, 660>>
    /\ sweep.current = 1200
    /\ sweep.slots = <<>>

\* C32: the jump loses no free slot.  When the candidate jumps from c to the
\* end e of a busy period, the slot of every start t with c <= t < e has an
\* instant in common with that busy period; the list returned holds, in
\* strictly increasing order of their starts, exactly the candidates whose
\* slot conflicts with no busy period
C32_JumpLosesNoSlot ==
    /\ [][(SweepMoves /\ sweep'.pc = "sweep" /\ sweep'.slots = sweep.slots) =>
            \E k \in DOMAIN sweep.busy :
               /\ sweep'.current = sweep.busy[k].be
               /\ \A t \in sweep.current..(sweep'.current - 1) :
                     Overlap(t, t + sweep.duration, sweep.busy[k])]_vars
    /\ [](SlotsReturned =>
            /\ \A i \in DOMAIN sweep.candidates :
                  LET t == sweep.candidates[i]
                  IN (\A j \in DOMAIN sweep.busy :
                         ~Overlap(t, t + sweep.duration, sweep.busy[j]))
                     <=> (\E k \in DOMAIN sweep.slots :
                            sweep.slots[k] = Slot(t, t + sweep.duration))
            /\ \A k \in 1..(Len(sweep.slots) - 1) : StartTimes[k] < StartTimes[k + 1])

\* the sweep jumped over 09:30 to 10:30 and returned the slots from 10:45 on:
\* every slot it jumped over conflicts, 11:00 is free and is not a candidate
C32_Witness ==
    /\ SlotsReturned
    /\ sweep.busy = <<Busy(570, 645)>>
    /\ sweep.duration = 30
    /\ SubSeq(sweep.candidates, 1, 4) = <<540, 570, 645, 675>>
    /\ SubSeq(StartTimes, 1, 3) = <<540, 645, 675>>

(***************************************************************************)
(* Further properties of the connection loop (checked under Spec)           *)
(***************************************************************************)
\* the loop takes a non-empty frame while suppression is clear
TakesFrame == TakesMedia /\ ~is_processing /\ Head(inbox).frame.n > 0

\* C33: a frame taken while suppression is clear is classified by its energy.
\* At an energy of 200 or more speaking becomes true and the silence counter
\* 0; below it the counter grows by exactly 1 if speaking is true, and
\* speaking and the counter stay as they are otherwise.  (When the frame
\* completes an utterance the segmenter is reset after the classification.)
C33_FrameClassification ==
    [][TakesFrame =>
         LET rms == Head(inbox).frame.rms
             speaking == (rms >= 200) \/ is_speaking
             silence == IF rms >= 200 THEN 0
                        ELSE IF is_speaking THEN silence_count + 1 ELSE silence_count
         IN IF pc' = "pipeline"
              THEN speaking /\ silence >= SILENCE_THRESHOLD
              ELSE is_speaking' = speaking /\ silence_count' = silence]_vars

\* the transport has sent one start event, and response_end marks only as
\* echoes of the markers it was sent
OrderlyMarks == tx.starts <= 1 /\ tx.spurious = 0

\* C34 as stated: whatever the transport sends, at most one marker is sent
\* and not yet acknowledged, and exactly one is whenever suppression is set
\* while neither start_call nor a pipeline run is executing
C34_MarkerAccounting ==
    /\ Len(unacked) <= 1
    /\ (is_processing /\ pc = "recv") => Len(unacked) = 1

\* C34, amended: the same on a connection whose transport sends a single
\* start event and sends response_end marks only as echoes
C34_MarkerAccountingOrderly ==
    OrderlyMarks =>
       /\ Len(unacked) <= 1
       /\ (is_processing /\ pc = "recv") => Len(unacked) = 1

\* the response of a turn is playing, its marker the one outstanding, after
\* the greeting's marker was acknowledged
C34_Witness ==
    /\ OrderlyMarks
    /\ is_processing /\ pc = "recv"
    /\ runs = 1
    /\ unacked = <<"response">>
    /\ greeting_sent

\* C35: on a connection whose first event is its single start event, the
\* segmenter is in its initial state (buffer empty, speaking false, silence
\* counter 0) whenever suppression is set; and in every state a silence
\* counter above 0 implies speaking, and speaking implies a non-empty buffer
C35_SegmenterShape ==
    /\ (tx.starts <= 1 /\ is_processing) => SegmenterReset
    /\ silence_count > 0 => is_speaking
    /\ is_speaking => audio_buffer # <<>>

\* a response is playing after an utterance that began with silence, and a
\* frame of the caller was discarded meanwhile
C35_Witness ==
    /\ tx.starts = 1
    /\ is_processing /\ pc = "recv"
    /\ unacked = <<"response">>
    /\ skipped # <<>>
    /\ ~IsSpeech(audio_data[1].rms)
    /\ SegmenterReset

\* C36: while suppression is clear the buffer holds, in order, the bytes of
\* every non-empty frame taken since the segmenter was last reset, whatever
\* the frame's energy (a frame that cannot be decoded has energy 0).  Every
\* such frame is appended, the silent ones before any speech too; they are
\* part of the utterance emitted; and nothing but a frame or a reset changes
\* the buffer
C36_BufferKeepsEveryFrame ==
    /\ [](~is_processing => audio_buffer = fed)
    /\ [][/\ TakesFrame =>
               LET all == Append(audio_buffer, Head(inbox).frame)
               IN IF pc' = "pipeline"
                    THEN audio_data' = all /\ audio_buffer' = <<>>
                    ELSE audio_buffer' = all
          /\ audio_buffer' # audio_buffer => (TakesFrame \/ audio_buffer' = <<>>)]_vars

\* the caller has been silent since the segmenter was reset: every frame of
\* the silence is in the buffer
C36_Witness ==
    /\ ~is_processing
    /\ ~is_speaking
    /\ Len(audio_buffer) >= 33
    /\ \A i \in DOMAIN audio_buffer : audio_buffer[i] = Frame(0, frame_len)

(***************************************************************************)
(* Further properties of the turn pipeline (checked under SpecTurn)         *)
(***************************************************************************)
\* C37: a turn on a stored history of at least 4 entries leaves its first 4
\* entries as they are and where they are, trimmed or not; and the greeting
\* start_call stored stays the first entry
C37_OpeningKept ==
    turn.pc = "returned" =>
       /\ active_sessions[call_sid].present
       /\ Len(turn.before) >= 4 =>
             (Len(Stored) >= 4 /\ SubSeq(Stored, 1, 4) = SubSeq(turn.before, 1, 4))
       /\ turn.before[1] = Msg("assistant", GREETING)
       /\ Stored[1] = Msg("assistant", GREETING)

\* a turn on 42 stored entries: the history was trimmed, the 5th and 6th
\* entries are gone, and the turn's two entries were appended
C37_Witness ==
    /\ turn.pc = "returned"
    /\ Len(turn.before) = 42
    /\ Len(Stored) = 42
    /\ Stored[5] = turn.before[7]
    /\ Stored[42] = Msg("assistant", turn.text)

\* the reply of the recorded turn was to be synthesized, and the synthesis
\* raised or gave no audio
ReplyNotSpoken ==
    turn.pc = "returned" /\ turn.stt = "text" /\ turn.llm # <<>> /\ turn.tts # "ok"

\* the history the recorded turn would have stored had the synthesis
\* behaved as tts tells
StoredWith(tts) ==
    ProcessCustomerAudio([active_sessions EXCEPT ![call_sid].history = turn.before],
                         call_sid, Text("utterance", runs), turn.stt, turn.llm,
                         tts).sessions[call_sid].history

\* C38 as stated: after a turn whose synthesis fails the caller heard
\* nothing, the stored history ends with the turn's user and assistant
\* entries, and it is the history a successful synthesis would have left
C38_StoredBeforeSynthesis ==
    ReplyNotSpoken =>
       /\ turn.audio = "" /\ NothingSent
       /\ Len(Stored) >= 2
       /\ Suffix(Stored, 2) = <<Msg("user", Text("utterance", runs)),
                                Msg("assistant", turn.text)>>
       /\ Stored = StoredWith("ok")

\* C38, amended: after a turn whose synthesis fails the caller heard
\* nothing and the stored history is what the engine returned, the same as
\* after a successful synthesis; it ends with the turn's user and assistant
\* entries when the engine gave a final answer, and is the trimmed history
\* of before the turn when the engine gave up
C38_StoredWhatEngineReturned ==
    ReplyNotSpoken =>
       /\ turn.audio = "" /\ NothingSent
       /\ Stored = Returned(TurnChat)
       /\ Stored = StoredWith("ok")
       /\ IF TurnChat.last = "text"
            THEN Stored = KeptHistory(turn.before)
                          \o <<Msg("user", Text("utterance", runs)),
                               Msg("assistant", turn.text)>>
            ELSE Stored = KeptHistory(turn.before)

\* the engine answered, the synthesis raised, and the turn is in the stored
\* history
C38_Witness ==
    /\ ReplyNotSpoken
    /\ turn.tts = "raise"
    /\ TurnChat.last = "text"
    /\ Len(turn.before) = 3
    /\ Len(Stored) = 5
    /\ Stored[4] = Msg("user", Text("utterance", runs))

\* the transcription or the conversation engine raised in the recorded turn,
\* and the synthesis of the fallback phrase raised too
FallbackNotSpoken ==
    /\ turn.pc = "returned"
    /\ turn.stt = "raise" \/ (turn.stt = "text" /\ turn.llm = <<>>)
    /\ turn.tts = "raise"

\* C39: when the synthesis of a fallback phrase raises, the exception leaves
\* process_customer_audio; the loop catches it, clears suppression, sends no
\* media and no marker, leaves the session in the store with its history as
\* it was, and goes on taking events in LISTENING
C39_FallbackFailureListens ==
    FallbackNotSpoken =>
       /\ turn.raised
       /\ turn.audio = "" /\ NothingSent
       /\ Listening
       /\ active_sessions[call_sid] =
             [present |-> TRUE, history |-> turn.before, is_active |-> TRUE]
       /\ ended = 0
       /\ inbox # <<>> => ENABLED HandleDisconnect

\* the engine raised on a history of 41 entries, the synthesis of the
\* apology raised, and the 41 entries are stored untrimmed
C39_Witness ==
    /\ FallbackNotSpoken
    /\ turn.stt = "text"
    /\ turn.calls = <<"stt", "llm", "tts">>
    /\ Len(Stored) = 41
    /\ ~is_processing

(***************************************************************************)
(* Properties of the loop's exception handlers (checked under SpecFault)    *)
(***************************************************************************)
\* the loop takes a message that makes its handling raise
TakesFaulty ==
    /\ pc = "recv"
    /\ inbox # <<>>
    /\ inbox' = Tail(inbox)
    /\ \/ Head(inbox).event = "unparsable"
       \/ Head(inbox).event = "badmedia" /\ ~is_processing

\* start_call has returned and sending the greeting raises
GreetingSendFails == pc = "start_call" /\ pc' = "closed"

\* C40: an exception raised while a message is handled outside the
\* pipeline's try block (a message that cannot be parsed, a media payload
\* that cannot be decoded, a start_call that fails, a greeting that cannot
\* be sent) ends the loop; the
\* session of the call is torn down when a call identifier is known, and the
\* store is left alone when none is; and no later event of the connection is
\* handled
C40_ExceptionEndsConnection ==
    /\ [][/\ TakesFaulty => (pc' = "raised" /\ active_sessions' = active_sessions)
          /\ pc = "raised" =>
                /\ pc' = "closed"
                /\ call_sid # NoCall =>
                      /\ ~active_sessions'[call_sid].present
                      /\ ~active_sessions'[call_sid].is_active
                      /\ ended' = 1
                /\ call_sid = NoCall => (active_sessions' = active_sessions /\ ended' = 0)
          /\ GreetingSendFails =>
                /\ ~active_sessions'[call_sid].present
                /\ ~active_sessions'[call_sid].is_active
                /\ ended' = 1
                /\ inbox' = inbox
          /\ pc = "start_call" => pc' \in {"recv", "raised", "closed"}
          /\ pc \in {"raised", "closed"} => inbox' = inbox]_vars
    /\ [](pc = "closed" => ~ENABLED NextFault)

\* the caller was speaking when a media payload could not be decoded: the
\* session is torn down and the stop event sent after it was never taken
C40_Witness ==
    /\ pc = "closed"
    /\ call_sid # NoCall
    /\ ~active_sessions[call_sid].present
    /\ Len(active_sessions[call_sid].history) = 3
    /\ ended = 1
    /\ audio_buffer # <<>>
    /\ inbox = <<StopEv>>

=============================================================================
